---------------------------- MODULE Spec2Model ----------------------------
(***************************************************************************)
(* State-machine model of the ESP32 MQTT IoT firmware (mqtt_system.c and   *)
(* the application tasks).  Every C statement that reads or writes a       *)
(* shared global (s_stats, s_mqtt_client, s_mqtt_connected,                *)
(* s_temp_low_start_time_ms, the GPIO output latches) is one step of the   *)
(* context that executes it, so that the FreeRTOS tasks and the event      *)
(* handlers can be interleaved statement by statement.                     *)
(*                                                                         *)
(* Contexts (FreeRTOS tasks):                                              *)
(*   "ev"      the MQTT client task, which runs mqtt_event_handler         *)
(*   "ac"      ac_monitor_task                                             *)
(*   "tel"     telemetry_task                                              *)
(*   "health"  health_monitoring_task                                      *)
(*   "custom"  custom_publish_task                                         *)
(*   "main"    the task of app_main and of the application's API calls     *)
(*   "sys"     the default event loop task, which runs wifi_event_handler  *)
(*   "wd"      wifi_watchdog_task                                          *)
(*                                                                         *)
(* Two schedulers are given for each subsystem: run-to-completion (an      *)
(* operation, once started, finishes before another context moves) and     *)
(* preemptive (any context may take the next step, with at most MaxActive  *)
(* operations in progress at a time).                                      *)
(***************************************************************************)
EXTENDS Integers, Sequences, FiniteSets, TLC

(***************************************************************************)
(* Program constants.  All counters and timestamps of the model stay far   *)
(* below 2^31, hence below the width of every C integer that holds them.   *)
(***************************************************************************)
TEN_MINUTES_MS == 600000

AC_CHECK_MS == 10000

TOPIC_LUM == "casa/externo/luminosidade"

TOPIC_TEMP == "casa/sala/temperatura"

TOPIC_COMMANDS == "demo/central/comandos"

(***************************************************************************)
(* Bounds of the model                                                     *)
(***************************************************************************)
\* the millisecond clock value at which the system is up and running
BootMs == 1

\* the clock is not advanced beyond MaxPeriods checker periods after BootMs
MaxPeriods == 61

\* number of MQTT_EVENT_DATA events delivered in one run
MaxData == 3

\* data events arrive during the first EarlyPeriods checker periods of a run
\* and during its last LatePeriods ones (the checker ticks in all of them)
EarlyPeriods == 1

LatePeriods == 2

\* operations in progress at the same time under pre-emption
MaxActive == 2

MaxNow == BootMs + MaxPeriods * AC_CHECK_MS

\* the 64-bit millisecond clock has wrapped its low 32 bits at most MaxEpoch
\* times (once every 2^32 ms, about 49.7 days)
MaxEpoch == 1

VARIABLES
    now,                        \* esp_timer_get_time() / 1000: ms since boot,
                                \* its low 32 bits
    epoch,                      \* and the bits above them
    acWake,                     \* ms at which ac_monitor_task's vTaskDelay ends
    s_stats,                    \* mqtt_statistics_t
    s_mqtt_client,              \* "NULL", "live" or "freed" (dangling)
    s_mqtt_connected,
    s_temp_low_start_time_ms,
    s_system_initialized,
    gpio18,                     \* output latch of GPIO 18 (lights)
    gpio19,                     \* output latch of GPIO 19 (air conditioner)
    pc,                         \* position of every context
    preemptive,                 \* the scheduler of the run: FALSE when every
                                \* operation runs to completion
    lastHigh,                   \* history: ms of the last temperature reading
                                \* >= 20 handled (0: none yet)
    evl,                        \* locals of mqtt_event_handler
    call,                       \* per context: arguments and locals of the
                                \* facade call in progress
    attempts,                   \* history: calls of mqtt_publish_data since
                                \* the statistics were last zeroed
    tasks,                      \* the tasks created so far
    link,                       \* the WiFi station: "down", "connecting", "up"
    wifiq,                      \* WiFi and IP events posted, not yet handled
    s_wifi_retry_num,
    wev,                        \* locals of wifi_event_handler
    rst,                        \* locals of mqtt_reset_statistics
    hist,                       \* history: sessions established, subscribe
                                \* requests of the handler, connect attempts
                                \* of the link-lost handler, offline time,
                                \* messages accepted by the client after the
                                \* "offline" of the shutdown in progress
    pre                         \* shared state at the entry of each context's
                                \* current operation (history, for pre/post)

vars == <<now, acWake, s_stats, s_mqtt_client, s_mqtt_connected,
          s_temp_low_start_time_ms, s_system_initialized, gpio18, gpio19,
          pc, preemptive, epoch, lastHigh, evl, call, attempts, tasks, link,
          wifiq,
          s_wifi_retry_num, wev, rst, hist, pre>>

Ctx == {"ev", "ac", "tel", "health", "custom", "main", "sys", "wd"}

(***************************************************************************)
(* atoi(): optional leading blanks, optional sign, then the longest run of *)
(* decimal digits; 0 when there is none.  A payload is the sequence of its *)
(* characters.                                                             *)
(***************************************************************************)
Digits == <<"0", "1", "2", "3", "4", "5", "6", "7", "8", "9">>

IsDigit(c) == \E i \in 1..Len(Digits) : Digits[i] = c

DigitVal(c) == (CHOOSE i \in 1..Len(Digits) : Digits[i] = c) - 1

RECURSIVE SkipBlanks(_, _)
SkipBlanks(s, i) ==
    IF i <= Len(s) /\ s[i] = " " THEN SkipBlanks(s, i + 1) ELSE i

RECURSIVE AtoiDigits(_, _, _)
AtoiDigits(s, i, acc) ==
    IF i <= Len(s) /\ IsDigit(s[i])
    THEN AtoiDigits(s, i + 1, acc * 10 + DigitVal(s[i]))
    ELSE acc

Atoi(s) ==
    LET i == SkipBlanks(s, 1)
        neg == i <= Len(s) /\ s[i] = "-"
        j == IF i <= Len(s) /\ (s[i] = "-" \/ s[i] = "+") THEN i + 1 ELSE i
        m == AtoiDigits(s, j, 0)
    IN IF neg THEN 0 - m ELSE m

\* payloads delivered in MQTT_EVENT_DATA events
Payloads ==
    { <<"2">>, <<"3">>, <<"1", "9">>, <<"2", "0">>, <<"2", "3">>,
      <<"2", "4">>, <<"-", "3">>, <<"o", "n">> }

DataTopics == {TOPIC_LUM, TOPIC_TEMP, TOPIC_COMMANDS}

(***************************************************************************)
(* Shared state as seen at one instant (for pre/post comparison).          *)
(***************************************************************************)
Snapshot ==
    [stats |-> s_stats, gpio18 |-> gpio18, gpio19 |-> gpio19,
     ts |-> s_temp_low_start_time_ms, connected |-> s_mqtt_connected,
     client |-> s_mqtt_client, now |-> now]

ZeroStats ==
    [total_publicadas |-> 0, total_recebidas |-> 0, falhas_publicacao |-> 0,
     desconexoes |-> 0, tempo_desconectado_ms |-> 0, ultima_mensagem_ts |-> 0]

NoEvent == [kind |-> "none", topic |-> "", data |-> <<>>, value |-> 0,
            lvl |-> 0, tmp |-> 0]

NoCall ==
    [fn |-> "none", topic |-> "", data |-> "", qos |-> 0, retain |-> FALSE,
     result |-> 0, tmp |-> 0, handed |-> FALSE, next |-> "idle",
     out |-> <<>>]

NoWifiEvent == [kind |-> "none", retry0 |-> 0, tmp |-> 0, issued |-> 0]

NoReset == [desconexoes |-> 0, tempo_desconectado |-> 0, done |-> 0,
            first |-> ZeroStats]

NoHist == [sessions |-> 0, subs |-> 0, tries |-> 0, lost |-> 0, lostAt |-> 0 - 1,
           offline |-> 0, afterOffline |-> 0 - 1, shutdowns |-> 0,
           queries |-> 0, starts |-> 0]

NoSnap ==
    [stats |-> ZeroStats, gpio18 |-> 0, gpio19 |-> 0, ts |-> 0,
     connected |-> FALSE, client |-> "NULL", now |-> 0]

(***************************************************************************)
(* The state once mqtt_system_init has returned ESP_OK with the session    *)
(* up: GPIOs low, statistics zeroed and then the status and boot messages  *)
(* published, the client started, all tasks created and asleep.            *)
(***************************************************************************)
InitRunning ==
    /\ now = BootMs
    /\ acWake = BootMs + AC_CHECK_MS
    /\ s_stats = [ZeroStats EXCEPT !.total_publicadas = 2]
    /\ s_mqtt_client = "live"
    /\ s_mqtt_connected = TRUE
    /\ s_temp_low_start_time_ms = 0
    /\ s_system_initialized = TRUE
    /\ gpio18 = 0
    /\ gpio19 = 0
    /\ pc = [c \in Ctx |-> "idle"]
    /\ preemptive \in BOOLEAN
    /\ epoch \in 0..MaxEpoch
    /\ lastHigh = 0
    /\ evl = NoEvent
    /\ call = [c \in Ctx |-> NoCall]
    /\ attempts = 2
    /\ tasks = Ctx
    /\ link = "up"
    /\ wifiq = <<>>
    /\ s_wifi_retry_num = 0
    /\ wev = NoWifiEvent
    /\ rst = NoReset
    /\ hist = [NoHist EXCEPT !.sessions = 1, !.subs = 4, !.starts = 1]
    /\ pre = [c \in Ctx |-> NoSnap]

\* positions at which a context is blocked in a FreeRTOS delay or wait
Blocked == {"idle", "i_wait", "i_wifi", "sd_delay"}

\* the contexts that are in the middle of an operation
Active == {c \in Ctx : pc[c] \notin Blocked}

\* context c may go on: under run-to-completion when no other context is in
\* the middle of an operation, under pre-emption when fewer than MaxActive
\* others are
MayRun(c) ==
    Cardinality(Active \ {c}) < (IF preemptive THEN MaxActive ELSE 1)

\* context c may start an operation
MayStart(c) == pc[c] = "idle" /\ MayRun(c)

AllIdle == \A c \in Ctx : pc[c] = "idle"

Goto(c, l) == pc' = [pc EXCEPT ![c] = l]

Enter(c) == pre' = [pre EXCEPT ![c] = Snapshot]

Leave(c) == pre' = [pre EXCEPT ![c] = NoSnap]

\* the WiFi link and its handler
link_vars == <<link, wifiq, s_wifi_retry_num, wev>>

\* the connection and the state of the facade calls, which the actuator
\* rules leave alone

conn_vars == <<s_mqtt_client, s_mqtt_connected, s_system_initialized,
               preemptive, epoch, call, attempts, tasks, link_vars, rst,
               hist>>


(***************************************************************************)
(* mqtt_event_handler, case MQTT_EVENT_DATA.  gpio_get_level is taken to   *)
(* return the level last written with gpio_set_level.                      *)
(***************************************************************************)
\* the periods of the checker, counted from BootMs
Period(t) == (t - BootMs) \div AC_CHECK_MS

CanArrive(t) ==
    \/ Period(t) < EarlyPeriods
    \/ Period(t) >= MaxPeriods - LatePeriods

\* event delivered; first half of s_stats.total_recebidas++ (the load)
EvData(topic, data) ==
    /\ MayStart("ev")
    /\ s_mqtt_client = "live"
    /\ CanArrive(now)
    /\ s_stats.total_recebidas < MaxData
    /\ evl' = [kind |-> "data", topic |-> topic, data |-> data, value |-> 0,
               lvl |-> 0, tmp |-> s_stats.total_recebidas]
    /\ Enter("ev")
    /\ Goto("ev", "d_recv_st")
    /\ UNCHANGED <<now, acWake, s_stats, conn_vars, lastHigh,
                   s_temp_low_start_time_ms, gpio18, gpio19>>

\* second half of s_stats.total_recebidas++ (the store)
EvRecvStore ==
    /\ pc["ev"] = "d_recv_st"
    /\ s_stats' = [s_stats EXCEPT !.total_recebidas = evl.tmp + 1]
    /\ Goto("ev", "d_ts")
    /\ UNCHANGED <<now, acWake, conn_vars, lastHigh, s_temp_low_start_time_ms,
                   gpio18, gpio19, evl, pre>>

\* RuleBranch with the high threshold compared with >= instead of >
RuleBranch_HighInclusive(topic, value) ==
    IF topic = TOPIC_LUM THEN "l_set"
    ELSE IF topic = TOPIC_TEMP
         THEN IF value >= 23 THEN "t_on"
              ELSE IF value < 20 THEN "t_lvl"
              ELSE "t_clr"
         ELSE "ret"

\* RuleBranch that takes every topic but the illumination one for the
\* temperature topic
RuleBranch_AnyTopic(topic, value) ==
    IF topic = TOPIC_LUM THEN "l_set"
    ELSE IF value > 23 THEN "t_on"
         ELSE IF value < 20 THEN "t_lvl"
         ELSE "t_clr"

\* the label the handler goes to once topic and value are known
RuleBranch(topic, value) ==
    IF topic = TOPIC_LUM THEN "l_set"
    ELSE IF topic = TOPIC_TEMP
         THEN IF value > 23 THEN "t_on"
              ELSE IF value < 20 THEN "t_lvl"
              ELSE "t_clr"
         ELSE "ret"

\* esp_timer_get_time() / 1000ULL: the 64-bit millisecond clock, as its high
\* and low 32-bit words
ClockMs == [hi |-> epoch, lo |-> now]

\* the assignment of a 64-bit value to a uint32_t field keeps its low word
ToU32(t) == [hi |-> 0, lo |-> t.lo]

\* s_stats.ultima_mensagem_ts = esp_timer_get_time() / 1000ULL (a uint32_t
\* field); then the local copies, atoi and the strcmp on the topic
EvLastTs ==
    /\ pc["ev"] = "d_ts"
    /\ s_stats' = [s_stats EXCEPT !.ultima_mensagem_ts = ToU32(ClockMs).lo]
    /\ evl' = [evl EXCEPT !.value = Atoi(evl.data)]
    /\ lastHigh' = IF evl.topic = TOPIC_TEMP /\ Atoi(evl.data) >= 20
                   THEN now ELSE lastHigh
    /\ Goto("ev", RuleBranch(evl.topic, Atoi(evl.data)))
    /\ UNCHANGED <<now, acWake, conn_vars, s_temp_low_start_time_ms,
                   gpio18, gpio19, pre>>

\* LightLevel with the threshold compared with <= instead of <
LightLevel_Inclusive(value) == IF value <= 3 THEN 1 ELSE 0

\* the level written to GPIO 18 for an illumination reading
LightLevel(value) == IF value < 3 THEN 1 ELSE 0

EvLumSet ==
    /\ pc["ev"] = "l_set"
    /\ gpio18' = LightLevel(evl.value)
    /\ Goto("ev", "ret")
    /\ UNCHANGED <<now, acWake, s_stats, conn_vars, lastHigh,
                   s_temp_low_start_time_ms, gpio19, evl, pre>>

\* value > 23: gpio_set_level(GPIO_NUM_19, 1)
EvTempOn ==
    /\ pc["ev"] = "t_on"
    /\ gpio19' = 1
    /\ Goto("ev", "t_clr")
    /\ UNCHANGED <<now, acWake, s_stats, conn_vars, lastHigh,
                   s_temp_low_start_time_ms, gpio18, evl, pre>>

\* s_temp_low_start_time_ms = 0 (after switching on, with the AC off, or
\* with the value between the thresholds)
EvTempClear ==
    /\ pc["ev"] = "t_clr"
    /\ s_temp_low_start_time_ms' = 0
    /\ Goto("ev", "ret")
    /\ UNCHANGED <<now, acWake, s_stats, conn_vars, lastHigh, gpio18, gpio19, evl, pre>>

\* value < 20: gpio_get_level(GPIO_NUM_19) == 1 ?
EvTempLevel ==
    /\ pc["ev"] = "t_lvl"
    /\ evl' = [evl EXCEPT !.lvl = gpio19]
    /\ Goto("ev", IF gpio19 = 1 THEN "t_chk" ELSE "t_clr")
    /\ UNCHANGED <<now, acWake, s_stats, conn_vars, lastHigh,
                   s_temp_low_start_time_ms, gpio18, gpio19, pre>>

\* EvTempCheck that starts the count again on every low reading
EvTempCheck_Rearm ==
    /\ pc["ev"] = "t_chk"
    /\ Goto("ev", "t_arm")
    /\ UNCHANGED <<now, acWake, s_stats, conn_vars, lastHigh,
                   s_temp_low_start_time_ms, gpio18, gpio19, evl, pre>>

\* s_temp_low_start_time_ms == 0 ?
EvTempCheck ==
    /\ pc["ev"] = "t_chk"
    /\ Goto("ev", IF s_temp_low_start_time_ms = 0 THEN "t_arm" ELSE "ret")
    /\ UNCHANGED <<now, acWake, s_stats, conn_vars, lastHigh,
                   s_temp_low_start_time_ms, gpio18, gpio19, evl, pre>>

\* s_temp_low_start_time_ms = esp_timer_get_time() / 1000ULL
EvTempArm ==
    /\ pc["ev"] = "t_arm"
    /\ s_temp_low_start_time_ms' = now
    /\ Goto("ev", "ret")
    /\ UNCHANGED <<now, acWake, s_stats, conn_vars, lastHigh, gpio18, gpio19, evl, pre>>

\* break; the handler returns to the client task's loop
EvReturn ==
    /\ pc["ev"] = "ret"
    /\ evl' = NoEvent
    /\ Leave("ev")
    /\ Goto("ev", "idle")
    /\ UNCHANGED <<now, acWake, s_stats, conn_vars, lastHigh,
                   s_temp_low_start_time_ms, gpio18, gpio19>>

(***************************************************************************)
(* ac_monitor_task: one iteration of its loop per wake-up.                 *)
(***************************************************************************)
\* vTaskDelay(10000) is over; gpio_get_level(GPIO_NUM_19) == 1 ?
AcWakeUp ==
    /\ MayStart("ac")
    /\ now >= acWake
    /\ Enter("ac")
    /\ Goto("ac", IF gpio19 = 1 THEN "m_chk" ELSE "m_zero")
    /\ UNCHANGED <<now, acWake, s_stats, conn_vars, lastHigh,
                   s_temp_low_start_time_ms, gpio18, gpio19, evl>>

\* s_temp_low_start_time_ms > 0 ?
AcCheckStarted ==
    /\ pc["ac"] = "m_chk"
    /\ Goto("ac", IF s_temp_low_start_time_ms > 0 THEN "m_time" ELSE "ret")
    /\ UNCHANGED <<now, acWake, s_stats, conn_vars, lastHigh,
                   s_temp_low_start_time_ms, gpio18, gpio19, evl, pre>>

\* elapsed_time_ms = current_time_ms - s_temp_low_start_time_ms (uint64_t;
\* the start is a past reading of the same clock, so there is no wrap)
ElapsedMs(current, start) == current - start

\* WindowOver compared with > instead of >=
WindowOver_Strict(elapsed) == elapsed > TEN_MINUTES_MS

\* whether the elapsed time switches the air conditioner off
WindowOver(elapsed) == elapsed >= TEN_MINUTES_MS

AcElapsed ==
    /\ pc["ac"] = "m_time"
    /\ Goto("ac", IF WindowOver(ElapsedMs(now, s_temp_low_start_time_ms))
                  THEN "m_off" ELSE "ret")
    /\ UNCHANGED <<now, acWake, s_stats, conn_vars, lastHigh,
                   s_temp_low_start_time_ms, gpio18, gpio19, evl, pre>>

\* gpio_set_level(GPIO_NUM_19, 0)
AcSwitchOff ==
    /\ pc["ac"] = "m_off"
    /\ gpio19' = 0
    /\ Goto("ac", "m_clr")
    /\ UNCHANGED <<now, acWake, s_stats, conn_vars, lastHigh,
                   s_temp_low_start_time_ms, gpio18, evl, pre>>

\* s_temp_low_start_time_ms = 0 after the switch-off
AcResetCounter ==
    /\ pc["ac"] = "m_clr"
    /\ s_temp_low_start_time_ms' = 0
    /\ Goto("ac", "ret")
    /\ UNCHANGED <<now, acWake, s_stats, conn_vars, lastHigh, gpio18, gpio19, evl, pre>>

\* AcForceZero that leaves the counter as it finds it
AcForceZero_Keep ==
    /\ pc["ac"] = "m_zero"
    /\ Goto("ac", "ret")
    /\ UNCHANGED <<now, acWake, s_stats, conn_vars, lastHigh,
                   s_temp_low_start_time_ms, gpio18, gpio19, evl, pre>>

\* AC found off: s_temp_low_start_time_ms = 0
AcForceZero ==
    /\ pc["ac"] = "m_zero"
    /\ s_temp_low_start_time_ms' = 0
    /\ Goto("ac", "ret")
    /\ UNCHANGED <<now, acWake, s_stats, conn_vars, lastHigh, gpio18, gpio19, evl, pre>>

\* end of the iteration: the task sleeps in vTaskDelay(10000) again
AcSleep ==
    /\ pc["ac"] = "ret"
    /\ acWake' = now + AC_CHECK_MS
    /\ Leave("ac")
    /\ Goto("ac", "idle")
    /\ UNCHANGED <<now, s_stats, conn_vars, lastHigh, s_temp_low_start_time_ms,
                   gpio18, gpio19, evl>>

(***************************************************************************)
(* The millisecond clock.  It is sampled at the wake-up of the checker and, *)
(* in the periods in which data events arrive, also 1 ms after the wake-up *)
(* and 1 ms before the next one.  A task whose delay is over runs before   *)
(* the clock moves on, and a handler or a loop iteration that has started  *)
(* ends within the millisecond (it neither blocks nor waits).              *)
(***************************************************************************)
NextInstant ==
    IF ~CanArrive(now) THEN acWake
    ELSE IF acWake - now >= AC_CHECK_MS THEN now + 1
    ELSE IF acWake - now > 1 THEN acWake - 1
    ELSE acWake

Advance ==
    /\ AllIdle
    /\ now < acWake
    /\ NextInstant <= MaxNow
    /\ now' = NextInstant
    /\ UNCHANGED <<acWake, s_stats, conn_vars, lastHigh, s_temp_low_start_time_ms,
                   gpio18, gpio19, pc, evl, pre>>

(***************************************************************************)
(* The actuator rules under the two schedulers.                            *)
(***************************************************************************)
NextRule ==
    \/ \E topic \in DataTopics, data \in Payloads : EvData(topic, data)
    \/ EvRecvStore
    \/ EvLastTs
    \/ EvLumSet
    \/ EvTempOn
    \/ EvTempClear
    \/ EvTempLevel
    \/ EvTempCheck
    \/ EvTempArm
    \/ EvReturn
    \/ AcWakeUp
    \/ AcCheckStarted
    \/ AcElapsed
    \/ AcSwitchOff
    \/ AcResetCounter
    \/ AcForceZero
    \/ AcSleep
    \/ Advance

\* every handler and every iteration of a task runs to completion
InitRuleSeq == InitRunning /\ preemptive = FALSE /\ epoch = 0

SpecRuleSeq == InitRuleSeq /\ [][NextRule]_vars

\* the tasks preempt one another between any two statements
InitRule == InitRunning /\ preemptive = TRUE /\ epoch = 0

SpecRule == InitRule /\ [][NextRule]_vars

\* the checker's view: the AC on or off, the counter zero or armed.  An
\* armed counter with the AC off is what a temperature handler leaves when
\* the checker switches the AC off between the handler's test of GPIO 19
\* and its store of the time.
InitChecker ==
    /\ now = BootMs
    /\ acWake = BootMs + AC_CHECK_MS
    /\ s_stats = [ZeroStats EXCEPT !.total_publicadas = 2]
    /\ s_mqtt_client = "live"
    /\ s_mqtt_connected = TRUE
    /\ s_temp_low_start_time_ms \in {0, BootMs}
    /\ s_system_initialized = TRUE
    /\ gpio18 = 0
    /\ gpio19 \in {0, 1}
    /\ pc = [c \in Ctx |-> "idle"]
    /\ preemptive = FALSE
    /\ epoch = 0
    /\ lastHigh = 0
    /\ evl = NoEvent
    /\ call = [c \in Ctx |-> NoCall]
    /\ attempts = 2
    /\ tasks = Ctx
    /\ link = "up"
    /\ wifiq = <<>>
    /\ s_wifi_retry_num = 0
    /\ wev = NoWifiEvent
    /\ rst = NoReset
    /\ hist = [NoHist EXCEPT !.sessions = 1, !.subs = 4, !.starts = 1]
    /\ pre = [c \in Ctx |-> NoSnap]

SpecChecker == InitChecker /\ [][NextRule]_vars

\* the same, at any age of the clock
InitStamp == InitRunning /\ preemptive = FALSE

SpecStamp == InitStamp /\ [][NextRule]_vars

(***************************************************************************)
(* Claims about the actuator rules.  An operation's effect is read where   *)
(* its context is at "ret": pre[c] is the shared state at its entry.       *)
(***************************************************************************)
LumDone == pc["ev"] = "ret" /\ evl.kind = "data" /\ evl.topic = TOPIC_LUM

TempDone == pc["ev"] = "ret" /\ evl.kind = "data" /\ evl.topic = TOPIC_TEMP

TickDone == pc["ac"] = "ret"

\* C6: after a data event on the illumination topic with reading v the light
\* output is ON if v < 3 and OFF if v >= 3, whatever it was before.
C6_IlluminationRule ==
    LumDone => /\ evl.value < 3 => gpio18 = 1
               /\ evl.value >= 3 => gpio18 = 0

\* C6 witness: a reading of 2 has switched the lights on, and the payload
\* "-3" has been read as a value below the threshold.
C6_Witness ==
    /\ LumDone
    /\ pre["ev"].gpio18 = 0
    /\ gpio18 = 1
    /\ evl.value = 0 - 3

\* C7 (amended): the checker switches the AC off at a tick exactly when the
\* timer is armed and at least 600 s have passed since it was armed; then no
\* temperature reading >= 20 was handled in those 600 s and the timer is
\* reset; an armed timer never predates the last reading >= 20; and the
\* data handler never switches the AC off.
C7_DelayedShutoff ==
    /\ (TickDone /\ pre["ac"].gpio19 = 1) =>
          (gpio19 = 0 <=> /\ pre["ac"].ts # 0
                          /\ now - pre["ac"].ts >= TEN_MINUTES_MS)
    /\ (TickDone /\ pre["ac"].gpio19 = 1 /\ gpio19 = 0) =>
          /\ s_temp_low_start_time_ms = 0
          /\ lastHigh # 0
          /\ now - lastHigh >= TEN_MINUTES_MS
    /\ (AllIdle /\ s_temp_low_start_time_ms # 0) =>
          s_temp_low_start_time_ms >= lastHigh
    /\ (pc["ev"] = "ret") => gpio19 >= pre["ev"].gpio19

\* C7 witness: a tick has switched the AC off exactly 600 s after the first
\* low reading.
C7_Witness ==
    /\ TickDone
    /\ pre["ac"].gpio19 = 1
    /\ gpio19 = 0
    /\ now - pre["ac"].ts = TEN_MINUTES_MS

\* C7 as stated: once the low readings have lasted T >= 600 s since the
\* first one the output is OFF (no checker tick is due at that instant).
C7_Original ==
    (AllIdle /\ now < acWake /\ s_temp_low_start_time_ms # 0) =>
        (now - s_temp_low_start_time_ms >= TEN_MINUTES_MS => gpio19 = 0)

\* C8: while the timer is armed and the output ON, a further reading < 20
\* leaves low_condition_start_ts at the value the first low reading set.
C8_ArmIdempotent ==
    (TempDone /\ evl.value < 20 /\ pre["ev"].ts # 0 /\ pre["ev"].gpio19 = 1)
        => s_temp_low_start_time_ms = pre["ev"].ts

\* C8 witness: a low reading handled later than the one that armed the timer.
C8_Witness ==
    /\ TempDone
    /\ evl.value < 20
    /\ pre["ev"].gpio19 = 1
    /\ pre["ev"].ts # 0
    /\ now > pre["ev"].ts

\* C9: per temperature reading v: v > 23 sets the output ON and the timer 0;
\* v < 20 with output ON and timer 0 sets the timer to now, output still ON;
\* v < 20 with output OFF leaves the output OFF and the timer 0;
\* 20 <= v <= 23 sets the timer 0 and leaves the output; no reading <= 23
\* changes the output.
C9_TemperatureRule ==
    TempDone =>
        /\ evl.value > 23 => (gpio19 = 1 /\ s_temp_low_start_time_ms = 0)
        /\ (evl.value < 20 /\ pre["ev"].gpio19 = 1 /\ pre["ev"].ts = 0) =>
              (s_temp_low_start_time_ms = now /\ now # 0 /\ gpio19 = 1)
        /\ (evl.value < 20 /\ pre["ev"].gpio19 = 0) =>
              (gpio19 = 0 /\ s_temp_low_start_time_ms = 0)
        /\ (evl.value >= 20 /\ evl.value <= 23) =>
              (s_temp_low_start_time_ms = 0 /\ gpio19 = pre["ev"].gpio19)
        /\ evl.value <= 23 => gpio19 = pre["ev"].gpio19

\* C9 witness: a reading of 23 handled while the timer was armed.
C9_Witness ==
    /\ TempDone
    /\ evl.value = 23
    /\ pre["ev"].ts # 0
    /\ pre["ev"].gpio19 = 1

\* C10 as stated: whenever no handler or checker iteration is in progress,
\* low_condition_start_ts != 0 implies that the AC output is ON.
C10_Original ==
    (AllIdle /\ s_temp_low_start_time_ms # 0) => gpio19 = 1

\* the positions between a writer's first read of (GPIO 19, timer) and its
\* last write of them
TempSection == {"t_on", "t_clr", "t_lvl", "t_chk", "t_arm"}

CheckerSection == {"m_chk", "m_time", "m_off", "m_clr", "m_zero"}

\* C11 as stated: the handler of a temperature reading and the checker are
\* never both in the middle of their read-modify-write of (GPIO 19, timer),
\* and the timer from which the checker has decided a shutoff is still armed
\* when the checker switches the output off.
C11_Original ==
    /\ ~(pc["ev"] \in TempSection /\ pc["ac"] \in CheckerSection)
    /\ pc["ac"] = "m_off" => s_temp_low_start_time_ms # 0

(***************************************************************************)
(* The publish/subscribe facade: mqtt_publish_data, mqtt_subscribe_topic,  *)
(* mqtt_unsubscribe_topic and their callers.  The clock and the actuator   *)
(* state play no part in it.                                               *)
(***************************************************************************)
MQTT_TOPIC_STATUS == "demo/central/status"

MQTT_TOPIC_TELEMETRY == "demo/central/telemetria"

MQTT_TOPIC_HEALTH == "demo/central/health"

MQTT_TOPIC_BOOT == "demo/central/boot"

CUSTOM_PUBLISH_TOPIC == "demo/central/custom"

\* calls of mqtt_publish_data between two zeroings of the statistics
MaxAttempts == 4

\* MQTT_EVENT_DISCONNECTED events delivered in one run
MaxDisconnects == 1

\* the values of a message id or error code of the client
MsgIds == (0 - 2) .. 1

\* what esp_mqtt_client_publish returns: the message id (0 for QoS 0) when
\* the message was sent or queued, -1 on failure, -2 when the outbox is full
ClientPublishRets(qos) ==
    {r \in MsgIds : r < 0 \/ (r = 0 <=> qos = 0)}

\* what esp_mqtt_client_subscribe and esp_mqtt_client_unsubscribe return:
\* a message id, or -1 on failure
ClientSubscribeRets == {r \in MsgIds : r = 0 - 1 \/ r > 0}

\* the contexts that call the facade
Callers == {"ev", "tel", "health", "custom", "main"}

\* the clock and the actuator rules
actuator_vars == <<now, acWake, s_temp_low_start_time_ms, gpio18, gpio19,
                   preemptive, epoch, lastHigh, evl>>

\* what the facade calls leave alone
rule_vars == <<actuator_vars, link_vars, rst, hist>>

\* context c calls fn; its caller goes on at next once the call has returned
BeginCall(c, fn, topic, data, qos, retain, next) ==
    /\ fn = "publish" => attempts < MaxAttempts
    /\ call' = [call EXCEPT ![c] =
                  [fn |-> fn, topic |-> topic, data |-> data, qos |-> qos,
                   retain |-> retain, result |-> 0, tmp |-> 0,
                   handed |-> FALSE, next |-> next, out |-> <<>>]]
    /\ attempts' = IF fn = "publish" THEN attempts + 1 ELSE attempts
    /\ Enter(c)
    /\ Goto(c, IF fn = "publish" THEN "p_client"
               ELSE IF fn = "subscribe" THEN "s_chk" ELSE "u_chk")

\* the call of context c returns v without having touched anything else
Fail(c, v, l) ==
    /\ call' = [call EXCEPT ![c].result = v]
    /\ Goto(c, l)

\* mqtt_publish_data: if (s_mqtt_client == NULL) { falhas++; return -1; }
PubCheckClient(c) ==
    /\ pc[c] = "p_client"
    /\ IF s_mqtt_client = "NULL"
       THEN Fail(c, 0 - 1, "p_fail_ld")
       ELSE Goto(c, "p_conn") /\ UNCHANGED call
    /\ UNCHANGED <<rule_vars, s_stats, s_mqtt_client, s_mqtt_connected,
                   s_system_initialized, attempts, tasks, pre>>

\* PubCheckConnected without the test of the flag
PubCheckConnected_NoTest(c) ==
    /\ pc[c] = "p_conn"
    /\ Goto(c, "p_send")
    /\ UNCHANGED <<rule_vars, s_stats, s_mqtt_client, s_mqtt_connected,
                   s_system_initialized, call, attempts, tasks, pre>>

\* mqtt_publish_data: if (!s_mqtt_connected) { falhas++; return -1; }
PubCheckConnected(c) ==
    /\ pc[c] = "p_conn"
    /\ IF ~s_mqtt_connected
       THEN Fail(c, 0 - 1, "p_fail_ld")
       ELSE Goto(c, "p_send") /\ UNCHANGED call
    /\ UNCHANGED <<rule_vars, s_stats, s_mqtt_client, s_mqtt_connected,
                   s_system_initialized, attempts, tasks, pre>>

\* PublishOutcome that takes message id 0 (every QoS 0 publish) for a failure
PublishOutcome_Positive(msg_id) ==
    IF msg_id > 0 THEN "p_ok_ld" ELSE "p_fail_ld"

\* mqtt_publish_data: if (msg_id >= 0) total_publicadas++ else falhas++
PublishOutcome(msg_id) ==
    IF msg_id >= 0 THEN "p_ok_ld" ELSE "p_fail_ld"

\* msg_id = esp_mqtt_client_publish(...): the message is handed to the client
PubSend(c, msg_id) ==
    /\ pc[c] = "p_send"
    /\ msg_id \in ClientPublishRets(call[c].qos)
    /\ call' = [call EXCEPT ![c].result = msg_id, ![c].handed = TRUE]
    /\ hist' = IF msg_id < 0 THEN hist
               ELSE IF call[c].topic = MQTT_TOPIC_STATUS
                       /\ call[c].data = "offline"
                    THEN [hist EXCEPT !.afterOffline = 0]
               ELSE IF hist.afterOffline >= 0
                    THEN [hist EXCEPT !.afterOffline = @ + 1]
               ELSE hist
    /\ Goto(c, PublishOutcome(msg_id))
    /\ UNCHANGED <<actuator_vars, link_vars, rst, s_stats, s_mqtt_client,
                   s_mqtt_connected, s_system_initialized, attempts, tasks,
                   pre>>

\* s_stats.total_publicadas++: the load
PubLoadOk(c) ==
    /\ pc[c] = "p_ok_ld"
    /\ call' = [call EXCEPT ![c].tmp = s_stats.total_publicadas]
    /\ Goto(c, "p_ok_st")
    /\ UNCHANGED <<rule_vars, s_stats, s_mqtt_client, s_mqtt_connected,
                   s_system_initialized, attempts, tasks, pre>>

\* s_stats.total_publicadas++: the store
PubStoreOk(c) ==
    /\ pc[c] = "p_ok_st"
    /\ s_stats' = [s_stats EXCEPT !.total_publicadas = call[c].tmp + 1]
    /\ Goto(c, "a_ret")
    /\ UNCHANGED <<rule_vars, s_mqtt_client, s_mqtt_connected,
                   s_system_initialized, call, attempts, tasks, pre>>

\* s_stats.falhas_publicacao++: the load
PubLoadFail(c) ==
    /\ pc[c] = "p_fail_ld"
    /\ call' = [call EXCEPT ![c].tmp = s_stats.falhas_publicacao]
    /\ Goto(c, "p_fail_st")
    /\ UNCHANGED <<rule_vars, s_stats, s_mqtt_client, s_mqtt_connected,
                   s_system_initialized, attempts, tasks, pre>>

\* PubStoreFail that leaves the counter as it was
PubStoreFail_Forgotten(c) ==
    /\ pc[c] = "p_fail_st"
    /\ Goto(c, "a_ret")
    /\ UNCHANGED <<rule_vars, s_stats, s_mqtt_client, s_mqtt_connected,
                   s_system_initialized, call, attempts, tasks, pre>>

\* s_stats.falhas_publicacao++: the store; then return -1 or return msg_id
PubStoreFail(c) ==
    /\ pc[c] = "p_fail_st"
    /\ s_stats' = [s_stats EXCEPT !.falhas_publicacao = call[c].tmp + 1]
    /\ Goto(c, "a_ret")
    /\ UNCHANGED <<rule_vars, s_mqtt_client, s_mqtt_connected,
                   s_system_initialized, call, attempts, tasks, pre>>

\* mqtt_subscribe_topic: if (s_mqtt_client == NULL || !s_mqtt_connected)
\* return -1
SubCheck(c) ==
    /\ pc[c] = "s_chk"
    /\ IF s_mqtt_client = "NULL" \/ ~s_mqtt_connected
       THEN Fail(c, 0 - 1, "a_ret")
       ELSE Goto(c, "s_send") /\ UNCHANGED call
    /\ UNCHANGED <<rule_vars, s_stats, s_mqtt_client, s_mqtt_connected,
                   s_system_initialized, attempts, tasks, pre>>

\* msg_id = esp_mqtt_client_subscribe(...); return msg_id
SubSend(c, msg_id) ==
    /\ pc[c] = "s_send"
    /\ msg_id \in ClientSubscribeRets
    /\ call' = [call EXCEPT ![c].result = msg_id, ![c].handed = TRUE]
    /\ hist' = IF c = "ev" THEN [hist EXCEPT !.subs = @ + 1] ELSE hist
    /\ Goto(c, "a_ret")
    /\ UNCHANGED <<actuator_vars, link_vars, rst, s_stats, s_mqtt_client,
                   s_mqtt_connected, s_system_initialized, attempts, tasks,
                   pre>>

\* mqtt_unsubscribe_topic: if (s_mqtt_client == NULL || !s_mqtt_connected)
\* return -1
UnsubCheck(c) ==
    /\ pc[c] = "u_chk"
    /\ IF s_mqtt_client = "NULL" \/ ~s_mqtt_connected
       THEN Fail(c, 0 - 1, "a_ret")
       ELSE Goto(c, "u_send") /\ UNCHANGED call
    /\ UNCHANGED <<rule_vars, s_stats, s_mqtt_client, s_mqtt_connected,
                   s_system_initialized, attempts, tasks, pre>>

\* msg_id = esp_mqtt_client_unsubscribe(...); return msg_id
UnsubSend(c, msg_id) ==
    /\ pc[c] = "u_send"
    /\ msg_id \in ClientSubscribeRets
    /\ call' = [call EXCEPT ![c].result = msg_id, ![c].handed = TRUE]
    /\ Goto(c, "a_ret")
    /\ UNCHANGED <<rule_vars, s_stats, s_mqtt_client, s_mqtt_connected,
                   s_system_initialized, attempts, tasks, pre>>

\* the call is over: its caller goes on
ApiReturn(c) ==
    /\ pc[c] = "a_ret"
    /\ call' = [call EXCEPT ![c] = NoCall]
    /\ Leave(c)
    /\ Goto(c, call[c].next)
    /\ UNCHANGED <<rule_vars, s_stats, s_mqtt_client, s_mqtt_connected,
                   s_system_initialized, attempts, tasks>>

(***************************************************************************)
(* The callers of the facade.                                              *)
(***************************************************************************)
api_frame == <<rule_vars, s_stats, s_mqtt_client, s_mqtt_connected,
               s_system_initialized, tasks>>

\* a task of the set created so far, whose delay is over
Tick(c) == MayStart(c) /\ c \in tasks

\* TelTick that publishes without looking at the session flag
TelTick_Unchecked ==
    /\ Tick("tel")
    /\ BeginCall("tel", "publish", MQTT_TOPIC_TELEMETRY, "json", 1, FALSE,
                 "idle")
    /\ UNCHANGED api_frame

\* telemetry_task: if (s_mqtt_connected) mqtt_publish_telemetry(&data)
TelTick ==
    /\ Tick("tel")
    /\ IF s_mqtt_connected
       THEN BeginCall("tel", "publish", MQTT_TOPIC_TELEMETRY, "json", 1,
                      FALSE, "idle")
       ELSE UNCHANGED <<call, attempts, pre, pc>>
    /\ UNCHANGED api_frame

\* health_monitoring_task: if (s_mqtt_connected) mqtt_publish_health_check()
HealthTick ==
    /\ Tick("health")
    /\ IF s_mqtt_connected
       THEN BeginCall("health", "publish", MQTT_TOPIC_HEALTH, "json", 0,
                      FALSE, "idle")
       ELSE UNCHANGED <<call, attempts, pre, pc>>
    /\ UNCHANGED api_frame

\* custom_publish_task: if (mqtt_system_is_connected()) three publishes
CustomTick ==
    /\ Tick("custom")
    /\ IF s_mqtt_connected
       THEN BeginCall("custom", "publish", TOPIC_LUM, "7", 1, FALSE,
                      "c_pub2")
       ELSE UNCHANGED <<call, attempts, pre, pc>>
    /\ UNCHANGED api_frame

CustomTemperature ==
    /\ pc["custom"] = "c_pub2"
    /\ BeginCall("custom", "publish", TOPIC_TEMP, "19", 1, FALSE, "c_pub3")
    /\ UNCHANGED api_frame

CustomMessage ==
    /\ pc["custom"] = "c_pub3"
    /\ BeginCall("custom", "publish", CUSTOM_PUBLISH_TOPIC, "json", 0, FALSE,
                 "idle")
    /\ UNCHANGED api_frame

\* arguments of the application's own calls of the public API
AppTopics == {MQTT_TOPIC_STATUS, TOPIC_TEMP}

AppPayloads == {"online", ""}

QoS == 0 .. 2

\* application code calls mqtt_publish_data
AppPublish(topic, data, qos, retain) ==
    /\ MayStart("main")
    /\ BeginCall("main", "publish", topic, data, qos, retain, "idle")
    /\ UNCHANGED api_frame

\* application code calls mqtt_subscribe_topic
AppSubscribe(topic, qos) ==
    /\ MayStart("main")
    /\ BeginCall("main", "subscribe", topic, "", qos, FALSE, "idle")
    /\ UNCHANGED api_frame

\* application code calls mqtt_unsubscribe_topic
AppUnsubscribe(topic) ==
    /\ MayStart("main")
    /\ BeginCall("main", "unsubscribe", topic, "", 0, FALSE, "idle")
    /\ UNCHANGED api_frame

ESP_OK == 0

ESP_FAIL == 0 - 1

ESP_ERR_INVALID_STATE == 259

\* mqtt_system_init or mqtt_system_shutdown returns v from its first test
\* without having done anything
Refuse(fn, v) ==
    /\ call' = [call EXCEPT !["main"] = [NoCall EXCEPT !.fn = fn,
                                                       !.result = v]]
    /\ Goto("main", "m_ret")

\* the caller of mqtt_system_init or mqtt_system_shutdown has the result
MainReturn ==
    /\ pc["main"] = "m_ret"
    /\ call' = [call EXCEPT !["main"] = NoCall]
    /\ Goto("main", "idle")
    /\ UNCHANGED <<rule_vars, s_stats, s_mqtt_client, s_mqtt_connected,
                   s_system_initialized, attempts, tasks, pre>>

\* InitBegin without its first test
InitBegin_Again(ok) ==
    /\ MayStart("main")
    /\ gpio18' = 0
    /\ hist' = IF ok THEN [hist EXCEPT !.starts = @ + 1] ELSE hist
    /\ link' = IF ok THEN "up" ELSE link
    /\ gpio19' = 0
    /\ s_stats' = ZeroStats
    /\ attempts' = 0
    /\ s_mqtt_client' = IF ok THEN "live" ELSE "NULL"
    /\ Goto("main", IF ok THEN "i_wait" ELSE "idle")
    /\ UNCHANGED <<now, acWake, s_temp_low_start_time_ms, preemptive, epoch,
                   lastHigh,
                   evl, s_mqtt_connected, s_system_initialized, call, tasks,
                   wifiq, s_wifi_retry_num, wev, rst, pre>>

(***************************************************************************)
(* mqtt_system_init, on the paths on which the GPIO and NVS set-up         *)
(* succeed; ok tells whether the network phases (init_wifi, the wait for   *)
(* the link, init_mqtt) succeed as well.                                   *)
(***************************************************************************)
InitBegin(ok) ==
    /\ MayStart("main")
    /\ IF s_system_initialized
       THEN /\ Refuse("init", ESP_OK)
            /\ UNCHANGED <<gpio18, gpio19, s_stats, attempts, s_mqtt_client,
                           link, hist>>
       ELSE /\ gpio18' = 0
            /\ hist' = IF ok THEN [hist EXCEPT !.starts = @ + 1] ELSE hist
            /\ link' = IF ok THEN "up" ELSE link
            /\ gpio19' = 0
            /\ s_stats' = ZeroStats
            /\ attempts' = 0
            /\ s_mqtt_client' = IF ok THEN "live" ELSE "NULL"
            /\ Goto("main", IF ok THEN "i_wait" ELSE "idle")
            /\ UNCHANGED call
    /\ UNCHANGED <<now, acWake, s_temp_low_start_time_ms, preemptive, epoch,
                   lastHigh,
                   evl, s_mqtt_connected, s_system_initialized, tasks,
                   wifiq, s_wifi_retry_num, wev, rst, pre>>

\* create_tasks() may fail in the first MaxFailedStarts runs of init_mqtt
MaxFailedStarts == 1

\* the order in which create_tasks() creates the tasks
CreationOrder == <<"tel", "health", "ac", "wd">>

\* wait_for_mqtt_connection(20) is over, with the session up or not; then
\* create_tasks()
InitWaitOver ==
    /\ pc["main"] = "i_wait"
    /\ MayRun("main")
    /\ tasks' = tasks \cup {"tel", "health", "ac", "wd"}
    /\ Goto("main", "i_pub")
    /\ UNCHANGED <<rule_vars, s_stats, s_mqtt_client, s_mqtt_connected,
                   s_system_initialized, call, attempts, pre>>

\* create_tasks() fails at its first, second, third or fourth xTaskCreate:
\* the tasks created before it stay, and mqtt_system_init returns ESP_FAIL
InitTasksFail(n) ==
    /\ pc["main"] = "i_wait"
    /\ MayRun("main")
    /\ hist.starts <= MaxFailedStarts
    /\ tasks' = tasks \cup {CreationOrder[i] : i \in 1..n}
    /\ call' = [call EXCEPT !["main"] = [NoCall EXCEPT !.fn = "init",
                                                       !.result = ESP_FAIL]]
    /\ Goto("main", "m_ret")
    /\ UNCHANGED <<rule_vars, s_stats, s_mqtt_client, s_mqtt_connected,
                   s_system_initialized, attempts, pre>>

\* InitPublishStatus that gives up when the session is down
InitPublishStatus_Fatal ==
    /\ pc["main"] = "i_pub"
    /\ IF s_mqtt_connected
       THEN BeginCall("main", "publish", MQTT_TOPIC_STATUS, "online", 1, TRUE,
                      "i_boot")
       ELSE Goto("main", "idle") /\ UNCHANGED <<call, attempts, pre>>
    /\ UNCHANGED api_frame

\* if (s_mqtt_connected) { mqtt_publish_status(true); ...
InitPublishStatus ==
    /\ pc["main"] = "i_pub"
    /\ IF s_mqtt_connected
       THEN BeginCall("main", "publish", MQTT_TOPIC_STATUS, "online", 1, TRUE,
                      "i_boot")
       ELSE Goto("main", "i_done") /\ UNCHANGED <<call, attempts, pre>>
    /\ UNCHANGED api_frame

\* InitPublishBoot with the boot message retained
InitPublishBoot_Retained ==
    /\ pc["main"] = "i_boot"
    /\ BeginCall("main", "publish", MQTT_TOPIC_BOOT, "json", 1, TRUE,
                 "i_done")
    /\ UNCHANGED api_frame

\* ... mqtt_publish_data(MQTT_TOPIC_BOOT, boot_info, 0, 1, false); }
InitPublishBoot ==
    /\ pc["main"] = "i_boot"
    /\ BeginCall("main", "publish", MQTT_TOPIC_BOOT, "json", 1, FALSE,
                 "i_done")
    /\ UNCHANGED api_frame

\* s_system_initialized = true; return ESP_OK
InitDone ==
    /\ pc["main"] = "i_done"
    /\ s_system_initialized' = TRUE
    /\ Goto("main", "idle")
    /\ UNCHANGED <<rule_vars, s_stats, s_mqtt_client, s_mqtt_connected, call,
                   attempts, tasks, pre>>

\* app_main, once mqtt_system_init has returned ESP_OK: xTaskCreate of the
\* application's tasks
MainCreateTasks ==
    /\ MayStart("main")
    /\ s_system_initialized
    /\ "custom" \notin tasks
    /\ tasks' = tasks \cup {"custom"}
    /\ UNCHANGED <<rule_vars, s_stats, s_mqtt_client, s_mqtt_connected,
                   s_system_initialized, call, attempts, pc, pre>>

(***************************************************************************)
(* mqtt_event_handler, cases MQTT_EVENT_CONNECTED and                      *)
(* MQTT_EVENT_DISCONNECTED.  The client delivers events once it is started.*)
(***************************************************************************)
\* s_mqtt_connected = true
EvConnected ==
    /\ MayStart("ev")
    /\ s_mqtt_client = "live"
    /\ ~s_mqtt_connected
    /\ s_mqtt_connected' = TRUE
    /\ hist' = [hist EXCEPT !.sessions = @ + 1,
                            !.offline = IF hist.lostAt < 0 THEN @
                                        ELSE @ + (now - hist.lostAt),
                            !.lostAt = 0 - 1]
    /\ Goto("ev", "e_sub1")
    /\ UNCHANGED <<actuator_vars, link_vars, rst, s_stats, s_mqtt_client,
                   s_system_initialized, call, attempts, tasks, pre>>

\* EvSubscribeNext without the subscription to the configuration topics
EvSubscribeNext_Short ==
    /\ pc["ev"] \in {"e_sub1", "e_sub2", "e_sub3"}
    /\ \/ /\ pc["ev"] = "e_sub1"
          /\ BeginCall("ev", "subscribe", TOPIC_LUM, "", 1, FALSE, "e_sub2")
       \/ /\ pc["ev"] = "e_sub2"
          /\ BeginCall("ev", "subscribe", TOPIC_TEMP, "", 1, FALSE, "e_sub3")
       \/ /\ pc["ev"] = "e_sub3"
          /\ BeginCall("ev", "subscribe", TOPIC_COMMANDS, "", 1, FALSE,
                       "idle")
    /\ UNCHANGED api_frame

\* EvSubscribeNext that announces the device once it has subscribed
EvSubscribeNext_Online ==
    /\ pc["ev"] \in {"e_sub1", "e_sub2", "e_sub3", "e_sub4"}
    /\ \/ /\ pc["ev"] = "e_sub1"
          /\ BeginCall("ev", "subscribe", TOPIC_LUM, "", 1, FALSE, "e_sub2")
       \/ /\ pc["ev"] = "e_sub2"
          /\ BeginCall("ev", "subscribe", TOPIC_TEMP, "", 1, FALSE, "e_sub3")
       \/ /\ pc["ev"] = "e_sub3"
          /\ BeginCall("ev", "subscribe", TOPIC_COMMANDS, "", 1, FALSE,
                       "e_sub4")
       \/ /\ pc["ev"] = "e_sub4"
          /\ BeginCall("ev", "publish", MQTT_TOPIC_STATUS, "online", 1, TRUE,
                       "idle")
    /\ UNCHANGED api_frame

\* the four subscriptions of MQTT_EVENT_CONNECTED, one after the other
EvSubscribeNext ==
    /\ pc["ev"] \in {"e_sub1", "e_sub2", "e_sub3", "e_sub4"}
    /\ \/ /\ pc["ev"] = "e_sub1"
          /\ BeginCall("ev", "subscribe", TOPIC_LUM, "", 1, FALSE, "e_sub2")
       \/ /\ pc["ev"] = "e_sub2"
          /\ BeginCall("ev", "subscribe", TOPIC_TEMP, "", 1, FALSE, "e_sub3")
       \/ /\ pc["ev"] = "e_sub3"
          /\ BeginCall("ev", "subscribe", TOPIC_COMMANDS, "", 1, FALSE,
                       "e_sub4")
       \/ /\ pc["ev"] = "e_sub4"
          /\ BeginCall("ev", "subscribe", "demo/config/#", "", 0, FALSE,
                       "idle")
    /\ UNCHANGED api_frame

\* EvDisconnected that starts the client again by itself
EvDisconnected_Restart ==
    /\ MayStart("ev")
    /\ s_mqtt_client = "live"
    /\ s_stats.desconexoes < MaxDisconnects
    /\ s_mqtt_connected' = FALSE
    /\ s_stats' = [s_stats EXCEPT !.desconexoes = @ + 1]
    /\ hist' = IF s_mqtt_connected
               THEN [hist EXCEPT !.lost = @ + 1, !.lostAt = now,
                                 !.starts = @ + 1]
               ELSE [hist EXCEPT !.starts = @ + 1]
    /\ UNCHANGED <<actuator_vars, link_vars, rst, s_mqtt_client,
                   s_system_initialized, call, attempts, tasks, pc, pre>>

\* s_mqtt_connected = false; s_stats.desconexoes++
EvDisconnected ==
    /\ MayStart("ev")
    /\ s_mqtt_client = "live"
    /\ s_stats.desconexoes < MaxDisconnects
    /\ s_mqtt_connected' = FALSE
    /\ s_stats' = [s_stats EXCEPT !.desconexoes = @ + 1]
    /\ hist' = IF s_mqtt_connected
               THEN [hist EXCEPT !.lost = @ + 1, !.lostAt = now]
               ELSE hist
    /\ UNCHANGED <<actuator_vars, link_vars, rst, s_mqtt_client,
                   s_system_initialized, call, attempts, tasks, pc, pre>>

(***************************************************************************)
(* The facade from power-on: called by the firmware's tasks and by an      *)
(* application, every operation running to completion; and called by the   *)
(* firmware's tasks as they preempt one another.                           *)
(***************************************************************************)
InitPowerOn ==
    /\ now = 0
    /\ acWake = 0
    /\ s_stats = ZeroStats
    /\ s_mqtt_client = "NULL"
    /\ s_mqtt_connected = FALSE
    /\ s_temp_low_start_time_ms = 0
    /\ s_system_initialized = FALSE
    /\ gpio18 = 0
    /\ gpio19 = 0
    /\ pc = [c \in Ctx |-> "idle"]
    /\ preemptive \in BOOLEAN
    /\ epoch = 0
    /\ lastHigh = 0
    /\ evl = NoEvent
    /\ call = [c \in Ctx |-> NoCall]
    /\ attempts = 0
    /\ tasks = {}
    /\ link = "down"
    /\ wifiq = <<>>
    /\ s_wifi_retry_num = 0
    /\ wev = NoWifiEvent
    /\ rst = NoReset
    /\ hist = NoHist
    /\ pre = [c \in Ctx |-> NoSnap]

NextFacade ==
    \/ \E c \in Callers : PubCheckClient(c)
    \/ \E c \in Callers : PubCheckConnected(c)
    \/ \E c \in Callers : \E msg_id \in MsgIds : PubSend(c, msg_id)
    \/ \E c \in Callers : PubLoadOk(c)
    \/ \E c \in Callers : PubStoreOk(c)
    \/ \E c \in Callers : PubLoadFail(c)
    \/ \E c \in Callers : PubStoreFail(c)
    \/ \E c \in Callers : SubCheck(c)
    \/ \E c \in Callers : \E msg_id \in MsgIds : SubSend(c, msg_id)
    \/ \E c \in Callers : UnsubCheck(c)
    \/ \E c \in Callers : \E msg_id \in MsgIds : UnsubSend(c, msg_id)
    \/ \E c \in Callers : ApiReturn(c)
    \/ TelTick
    \/ HealthTick
    \/ CustomTick
    \/ CustomTemperature
    \/ CustomMessage
    \/ \E topic \in AppTopics, data \in AppPayloads, qos \in QoS,
          retain \in BOOLEAN : AppPublish(topic, data, qos, retain)
    \/ \E topic \in AppTopics, qos \in QoS : AppSubscribe(topic, qos)
    \/ \E topic \in AppTopics : AppUnsubscribe(topic)
    \/ \E ok \in BOOLEAN : InitBegin(ok)
    \/ InitWaitOver
    \/ InitPublishStatus
    \/ InitPublishBoot
    \/ InitDone
    \/ MainReturn
    \/ MainCreateTasks
    \/ EvConnected
    \/ EvSubscribeNext
    \/ EvDisconnected

\* every call, handler and loop iteration runs to completion
InitFacadeSeq == InitPowerOn /\ preemptive = FALSE

SpecFacadeSeq == InitFacadeSeq /\ [][NextFacade]_vars

\* the firmware as shipped: the facade is called by its own tasks only
NextFirmware ==
    \/ \E c \in Callers : PubCheckClient(c)
    \/ \E c \in Callers : PubCheckConnected(c)
    \/ \E c \in Callers : \E msg_id \in MsgIds : PubSend(c, msg_id)
    \/ \E c \in Callers : PubLoadOk(c)
    \/ \E c \in Callers : PubStoreOk(c)
    \/ \E c \in Callers : PubLoadFail(c)
    \/ \E c \in Callers : PubStoreFail(c)
    \/ \E c \in Callers : SubCheck(c)
    \/ \E c \in Callers : \E msg_id \in MsgIds : SubSend(c, msg_id)
    \/ \E c \in Callers : ApiReturn(c)
    \/ TelTick
    \/ HealthTick
    \/ CustomTick
    \/ CustomTemperature
    \/ CustomMessage
    \/ \E ok \in BOOLEAN : InitBegin(ok)
    \/ InitWaitOver
    \/ InitPublishStatus
    \/ InitPublishBoot
    \/ InitDone
    \/ MainReturn
    \/ MainCreateTasks
    \/ EvConnected
    \/ EvSubscribeNext
    \/ EvDisconnected

\* the tasks preempt one another between any two statements
InitFacade == InitPowerOn /\ preemptive = TRUE

SpecFacade == InitFacade /\ [][NextFirmware]_vars

(***************************************************************************)
(* Claims about the facade.  A call's effect is read where its context is  *)
(* at "a_ret": call[c] holds its arguments and its result, pre[c] the      *)
(* shared state at its entry.                                              *)
(***************************************************************************)
Returned(c, fn) == pc[c] = "a_ret" /\ call[c].fn = fn

\* the session was down, or the handle absent, when the call was made
DownAtEntry(c) == pre[c].client = "NULL" \/ ~pre[c].connected

\* C1: a call of mqtt_publish_data, mqtt_subscribe_topic or
\* mqtt_unsubscribe_topic made while the session is down or the client handle
\* absent returns -1 and hands nothing to the client, whatever its arguments.
C1_DownReturnsFailure ==
    \A c \in Callers :
        (pc[c] = "a_ret" /\ DownAtEntry(c)) =>
            (call[c].result = 0 - 1 /\ ~call[c].handed)

\* C1 witness: a retained QoS 2 publish made with the client started and the
\* session down has returned.
C1_Witness ==
    /\ Returned("main", "publish")
    /\ pre["main"].client = "live"
    /\ ~pre["main"].connected
    /\ call["main"].qos = 2
    /\ call["main"].retain
    /\ call["main"].result = 0 - 1

\* C2 (amended): a publish made while the session is down increments
\* falhas_publicacao by one and returns -1; a subscribe or unsubscribe made
\* while the session is down returns -1 and leaves the statistics as they were.
C2_DownCounted ==
    \A c \in Callers :
        (pc[c] = "a_ret" /\ DownAtEntry(c)) =>
            /\ call[c].result = 0 - 1
            /\ call[c].fn = "publish" =>
                  s_stats = [pre[c].stats EXCEPT !.falhas_publicacao = @ + 1]
            /\ call[c].fn \in {"subscribe", "unsubscribe"} =>
                  s_stats = pre[c].stats

\* C2 witness: a subscribe made with the session down has returned, after an
\* earlier publish had failed.
C2_Witness ==
    /\ Returned("main", "subscribe")
    /\ pre["main"].client = "live"
    /\ ~pre["main"].connected
    /\ s_stats.falhas_publicacao > 0

\* C2 as stated: after every publish and every subscribe made while the
\* session is down the failure count is greater than before the call.
C2_Original ==
    \A c \in Callers :
        (pc[c] = "a_ret" /\ call[c].fn \in {"publish", "subscribe"}
            /\ DownAtEntry(c)) =>
            s_stats.falhas_publicacao > pre[c].stats.falhas_publicacao

\* C3: a call of mqtt_publish_data changes exactly one counter by one:
\* total_publicadas when it returns a message id >= 0, falhas_publicacao when
\* it returns a failure; the other statistics are as before the call.
C3_ExactlyOneCounter ==
    \A c \in Callers :
        Returned(c, "publish") =>
            IF call[c].result >= 0
            THEN s_stats = [pre[c].stats EXCEPT !.total_publicadas = @ + 1]
            ELSE s_stats = [pre[c].stats EXCEPT !.falhas_publicacao = @ + 1]

\* C3 witness: a QoS 0 publish of the health task has returned message id 0
\* after an earlier failure and an earlier disconnection.
C3_Witness ==
    /\ Returned("health", "publish")
    /\ call["health"].result = 0
    /\ call["health"].handed
    /\ s_stats.falhas_publicacao > 0
    /\ s_stats.desconexoes > 0

\* C4 as stated: whenever no call of mqtt_publish_data is in progress,
\* total_publicadas + falhas_publicacao is the number of calls made since the
\* statistics were zeroed, whichever tasks made them.
C4_Original ==
    (\A c \in Callers : call[c].fn # "publish") =>
        s_stats.total_publicadas + s_stats.falhas_publicacao = attempts

\* C5 as stated: mqtt_publish_data returns a message id >= 0 or exactly -1.
C5_Original ==
    \A c \in Callers :
        Returned(c, "publish") =>
            (call[c].result >= 0 \/ call[c].result = 0 - 1)

(***************************************************************************)
(* The WiFi link: wifi_event_handler, wifi_watchdog_task and the station.  *)
(* The station is "up" while it is associated with the access point, which *)
(* is when esp_wifi_sta_get_ap_info succeeds; it gets its address in the   *)
(* same step.                                                              *)
(***************************************************************************)
WIFI_MAX_RETRY == 5

\* WiFi and IP events posted to the event loop and not yet handled
MaxPending == 2

\* the clock of the link specifications advances in steps of LinkTickMs, at
\* most MaxLinkTicks times
LinkTickMs == 1000

MaxLinkTicks == 1

link_frame == <<actuator_vars, s_stats, s_mqtt_client, s_mqtt_connected,
                s_system_initialized, call, attempts, tasks, rst, pre>>

\* esp_wifi_connect(): a station that is down starts a connection attempt;
\* on a station that is connecting or connected the call changes nothing
WifiConnect(l) == IF l = "down" THEN "connecting" ELSE l

\* the driver and the access point move while no operation is in progress
\* (run-to-completion) or at any time (pre-emption)
DriverMoves == (preemptive \/ Active = {}) /\ Len(wifiq) < MaxPending

\* the connection to the access point is lost: WIFI_EVENT_STA_DISCONNECTED
LinkLost ==
    /\ DriverMoves
    /\ link = "up"
    /\ link' = "down"
    /\ wifiq' = Append(wifiq, "STA_DISCONNECTED")
    /\ UNCHANGED <<link_frame, s_wifi_retry_num, wev, hist, pc>>

\* a connection attempt fails: WIFI_EVENT_STA_DISCONNECTED
AttemptFails ==
    /\ DriverMoves
    /\ link = "connecting"
    /\ link' = "down"
    /\ wifiq' = Append(wifiq, "STA_DISCONNECTED")
    /\ UNCHANGED <<link_frame, s_wifi_retry_num, wev, hist, pc>>

\* a connection attempt succeeds: IP_EVENT_STA_GOT_IP
AttemptSucceeds ==
    /\ DriverMoves
    /\ link = "connecting"
    /\ link' = "up"
    /\ wifiq' = Append(wifiq, "GOT_IP")
    /\ UNCHANGED <<link_frame, s_wifi_retry_num, wev, hist, pc>>

\* RetryAllowed with the bound compared with <= instead of <
RetryAllowed_Inclusive(n) == n <= WIFI_MAX_RETRY

\* RetryAllowed without a bound
RetryAllowed_Always(n) == n >= 0

\* wifi_event_handler: if (s_wifi_retry_num < WIFI_MAX_RETRY)
RetryAllowed(n) == n < WIFI_MAX_RETRY

\* the event loop delivers the next event to wifi_event_handler, which
\* branches on it
WifiEvent ==
    /\ MayStart("sys")
    /\ wifiq # <<>>
    /\ wifiq' = Tail(wifiq)
    /\ wev' = [kind |-> Head(wifiq), retry0 |-> s_wifi_retry_num, tmp |-> 0,
               issued |-> 0]
    /\ Goto("sys", IF Head(wifiq) = "STA_START" THEN "h_start"
                   ELSE IF Head(wifiq) = "GOT_IP" THEN "h_zero"
                   ELSE IF RetryAllowed(s_wifi_retry_num) THEN "h_conn"
                   ELSE "h_ret")
    /\ UNCHANGED <<link_frame, link, s_wifi_retry_num, hist>>

\* WIFI_EVENT_STA_START: esp_wifi_connect()
HStart ==
    /\ pc["sys"] = "h_start"
    /\ link' = WifiConnect(link)
    /\ wev' = [wev EXCEPT !.issued = @ + 1]
    /\ Goto("sys", "h_ret")
    /\ UNCHANGED <<link_frame, wifiq, s_wifi_retry_num, hist>>

\* WIFI_EVENT_STA_DISCONNECTED with a retry left: esp_wifi_connect()
HConnect ==
    /\ pc["sys"] = "h_conn"
    /\ link' = WifiConnect(link)
    /\ wev' = [wev EXCEPT !.issued = @ + 1]
    /\ hist' = [hist EXCEPT !.tries = @ + 1]
    /\ Goto("sys", "h_ld")
    /\ UNCHANGED <<link_frame, wifiq, s_wifi_retry_num>>

\* s_wifi_retry_num++: the load
HLoad ==
    /\ pc["sys"] = "h_ld"
    /\ wev' = [wev EXCEPT !.tmp = s_wifi_retry_num]
    /\ Goto("sys", "h_st")
    /\ UNCHANGED <<link_frame, link, wifiq, s_wifi_retry_num, hist>>

\* s_wifi_retry_num++: the store
HStore ==
    /\ pc["sys"] = "h_st"
    /\ s_wifi_retry_num' = wev.tmp + 1
    /\ Goto("sys", "h_ret")
    /\ UNCHANGED <<link_frame, link, wifiq, wev, hist>>

\* HZero that leaves the retry count as it finds it
HZero_Keep ==
    /\ pc["sys"] = "h_zero"
    /\ Goto("sys", "h_ret")
    /\ UNCHANGED <<link_frame, link, wifiq, wev, s_wifi_retry_num, hist>>

\* IP_EVENT_STA_GOT_IP: s_wifi_retry_num = 0
HZero ==
    /\ pc["sys"] = "h_zero"
    /\ s_wifi_retry_num' = 0
    /\ hist' = [hist EXCEPT !.tries = 0]
    /\ Goto("sys", "h_ret")
    /\ UNCHANGED <<link_frame, link, wifiq, wev>>

\* wifi_event_handler returns
HReturn ==
    /\ pc["sys"] = "h_ret"
    /\ wev' = NoWifiEvent
    /\ Goto("sys", "idle")
    /\ UNCHANGED <<link_frame, link, wifiq, s_wifi_retry_num, hist>>

\* wifi_watchdog_task: vTaskDelay is over;
\* if (esp_wifi_sta_get_ap_info(&ap_info) != ESP_OK)
WdTick ==
    /\ Tick("wd")
    /\ Goto("wd", IF link # "up" THEN "wd_zero" ELSE "idle")
    /\ UNCHANGED <<link_frame, link_vars, hist>>

\* s_wifi_retry_num = 0
WdReset ==
    /\ pc["wd"] = "wd_zero"
    /\ s_wifi_retry_num' = 0
    /\ hist' = [hist EXCEPT !.tries = 0]
    /\ Goto("wd", "wd_conn")
    /\ UNCHANGED <<link_frame, link, wifiq, wev>>

\* WdConnect that leaves the reconnection to the event handler
WdConnect_Skipped ==
    /\ pc["wd"] = "wd_conn"
    /\ Goto("wd", "idle")
    /\ UNCHANGED <<link_frame, link_vars, hist>>

\* esp_wifi_connect()
WdConnect ==
    /\ pc["wd"] = "wd_conn"
    /\ link' = WifiConnect(link)
    /\ Goto("wd", "idle")
    /\ UNCHANGED <<link_frame, wifiq, s_wifi_retry_num, wev, hist>>

\* mqtt_system_init: wait_for_wifi_connection(30) is over, with the station
\* associated or with a timeout (return); then init_mqtt() starts the client
InitWifiWaitOver ==
    /\ pc["main"] = "i_wifi"
    /\ MayRun("main")
    /\ s_mqtt_client' = IF link = "up" THEN "live" ELSE s_mqtt_client
    /\ hist' = IF link = "up" THEN [hist EXCEPT !.starts = @ + 1] ELSE hist
    /\ Goto("main", IF link = "up" THEN "i_wait" ELSE "idle")
    /\ UNCHANGED <<actuator_vars, link_vars, rst, s_stats, s_mqtt_connected,
                   s_system_initialized, call, attempts, tasks, pre>>

\* the broker accepts the connection of the client: MQTT_EVENT_CONNECTED
LinkEvConnected == link = "up" /\ EvConnected

\* time passes while nothing runs
LinkClock ==
    /\ Active = {}
    /\ now < MaxLinkTicks * LinkTickMs
    /\ now' = now + LinkTickMs
    /\ UNCHANGED <<acWake, s_stats, conn_vars, s_temp_low_start_time_ms,
                   gpio18, gpio19, pc, lastHigh, evl, pre>>

\* mqtt_system_init has called init_wifi(): esp_wifi_start() has posted
\* WIFI_EVENT_STA_START and the caller waits for the station
InitLink ==
    /\ now = 0
    /\ acWake = 0
    /\ s_stats = ZeroStats
    /\ s_mqtt_client = "NULL"
    /\ s_mqtt_connected = FALSE
    /\ s_temp_low_start_time_ms = 0
    /\ s_system_initialized = FALSE
    /\ gpio18 = 0
    /\ gpio19 = 0
    /\ pc = [c \in Ctx |-> IF c = "main" THEN "i_wifi" ELSE "idle"]
    /\ preemptive = FALSE
    /\ epoch = 0
    /\ lastHigh = 0
    /\ evl = NoEvent
    /\ call = [c \in Ctx |-> NoCall]
    /\ attempts = 0
    /\ tasks = {}
    /\ link = "down"
    /\ wifiq = <<"STA_START">>
    /\ s_wifi_retry_num = 0
    /\ wev = NoWifiEvent
    /\ rst = NoReset
    /\ hist = NoHist
    /\ pre = [c \in Ctx |-> NoSnap]

NextLink ==
    \/ LinkLost
    \/ AttemptFails
    \/ AttemptSucceeds
    \/ WifiEvent
    \/ HStart
    \/ HConnect
    \/ HLoad
    \/ HStore
    \/ HZero
    \/ HReturn
    \/ WdTick
    \/ WdReset
    \/ WdConnect
    \/ InitWifiWaitOver
    \/ InitWaitOver
    \/ InitPublishStatus
    \/ InitPublishBoot
    \/ InitDone
    \/ \E c \in Callers : PubCheckClient(c)
    \/ \E c \in Callers : PubCheckConnected(c)
    \/ \E c \in Callers : \E msg_id \in MsgIds : PubSend(c, msg_id)
    \/ \E c \in Callers : PubLoadOk(c)
    \/ \E c \in Callers : PubStoreOk(c)
    \/ \E c \in Callers : PubLoadFail(c)
    \/ \E c \in Callers : PubStoreFail(c)
    \/ \E c \in Callers : SubCheck(c)
    \/ \E c \in Callers : \E msg_id \in MsgIds : SubSend(c, msg_id)
    \/ \E c \in Callers : ApiReturn(c)
    \/ LinkEvConnected
    \/ EvSubscribeNext
    \/ EvDisconnected
    \/ LinkClock

\* the system up and running with the station associated: what the link
\* handlers and the watchdog start from once mqtt_system_init has returned
InitRetry == InitRunning /\ preemptive = TRUE /\ epoch = 0

\* the link, its handler and the watchdog
NextRetry ==
    \/ LinkLost
    \/ AttemptFails
    \/ AttemptSucceeds
    \/ WifiEvent
    \/ HConnect
    \/ HLoad
    \/ HStore
    \/ HZero
    \/ HReturn
    \/ WdTick
    \/ WdReset
    \/ WdConnect

\* the watchdog task pre-empts the event loop between any two statements
SpecRetry == InitRetry /\ [][NextRetry]_vars

\* every handler, call and loop iteration runs to completion
SpecLinkSeq == InitLink /\ [][NextLink]_vars

\* the steps that continue an operation in progress
Running ==
    \/ HStart \/ HConnect \/ HLoad \/ HStore \/ HZero \/ HReturn
    \/ WdReset \/ WdConnect
    \/ InitPublishStatus \/ InitPublishBoot \/ InitDone
    \/ EvSubscribeNext
    \/ \E c \in Callers : PubCheckClient(c)
    \/ \E c \in Callers : PubCheckConnected(c)
    \/ \E c \in Callers : \E msg_id \in MsgIds : PubSend(c, msg_id)
    \/ \E c \in Callers : PubLoadOk(c)
    \/ \E c \in Callers : PubStoreOk(c)
    \/ \E c \in Callers : PubLoadFail(c)
    \/ \E c \in Callers : PubStoreFail(c)
    \/ \E c \in Callers : SubCheck(c)
    \/ \E c \in Callers : \E msg_id \in MsgIds : SubSend(c, msg_id)
    \/ \E c \in Callers : ApiReturn(c)

\* the scheduler: an operation in progress goes on, and the watchdog, whose
\* vTaskDelay ends every WIFI_WATCHDOG_INTERVAL_MS, runs again and again
SpecLinkFair == SpecLinkSeq /\ WF_vars(Running) /\ SF_vars(WdTick)

(***************************************************************************)
(* Claims about the link and the session.                                  *)
(***************************************************************************)
\* wifi_event_handler has handled a WIFI_EVENT_STA_DISCONNECTED and is about
\* to return
LinkLostDone == pc["sys"] = "h_ret" /\ wev.kind = "STA_DISCONNECTED"

\* C12 (as stated): in every reachable state the session flag is true only
\* while the link is up.
C12_Original == s_mqtt_connected => link = "up"

\* C13: a link-lost event with retry_count < 5 issues exactly one connect
\* attempt and adds one to retry_count; with retry_count >= 5 it issues none
\* and leaves retry_count alone; the handler never issues more than 5 connect
\* attempts between two resets of retry_count.
C13_BoundedRetry ==
    /\ LinkLostDone =>
          IF wev.retry0 < WIFI_MAX_RETRY
          THEN wev.issued = 1 /\ s_wifi_retry_num = wev.retry0 + 1
          ELSE wev.issued = 0 /\ s_wifi_retry_num = wev.retry0
    /\ hist.tries <= WIFI_MAX_RETRY

\* C13 witness: the fifth attempt since the last reset has failed, and the
\* handler returns without a sixth
C13_Witness ==
    /\ LinkLostDone
    /\ wev.retry0 = WIFI_MAX_RETRY
    /\ hist.tries = WIFI_MAX_RETRY
    /\ wev.issued = 0

\* C14: once the watchdog task exists, a link that is down is eventually
\* being connected again.
C14_Reconnects == ("wd" \in tasks /\ link = "down") ~> (link = "connecting")

\* C14 witness: the handler has used up its retries, the link is down, and
\* the watchdog is about to reset the retry count and connect
C14_Witness ==
    /\ pc["wd"] = "wd_zero"
    /\ link = "down"
    /\ s_wifi_retry_num = WIFI_MAX_RETRY
    /\ wifiq = <<>>

\* the topics of the subscription batch
BatchTopics == {TOPIC_LUM, TOPIC_TEMP, TOPIC_COMMANDS, "demo/config/#"}

PeriodicTasks == {"tel", "health", "custom"}

\* C16 (as stated): whenever a periodic task finds session_up true and
\* starts a publish attempt, the subscription batch of that session has been
\* issued.
C16_Original ==
    [][\A c \in PeriodicTasks :
          (pc[c] = "idle" /\ pc'[c] = "p_client") =>
              hist.subs = Cardinality(BatchTopics) * hist.sessions]_vars

(***************************************************************************)
(* mqtt_reset_statistics, from every value of the statistics.              *)
(***************************************************************************)
\* the largest value of a statistics field at the start
MaxStat == 2

\* the calls of mqtt_reset_statistics in a behaviour
MaxResets == 2

reset_frame == <<actuator_vars, link_vars, hist, s_mqtt_client,
                 s_mqtt_connected, s_system_initialized, call, tasks>>

\* uint32_t desconexoes = s_stats.desconexoes
ResetLoadDisconnects ==
    /\ MayStart("main")
    /\ rst.done < MaxResets
    /\ rst' = [rst EXCEPT !.desconexoes = s_stats.desconexoes]
    /\ Enter("main")
    /\ Goto("main", "r_ld")
    /\ UNCHANGED <<reset_frame, s_stats, attempts>>

\* uint32_t tempo_desconectado = s_stats.tempo_desconectado_ms
ResetLoadOffline ==
    /\ pc["main"] = "r_ld"
    /\ rst' = [rst EXCEPT !.tempo_desconectado = s_stats.tempo_desconectado_ms]
    /\ Goto("main", "r_zero")
    /\ UNCHANGED <<reset_frame, s_stats, attempts, pre>>

\* memset(&s_stats, 0, sizeof(mqtt_statistics_t))
ResetZero ==
    /\ pc["main"] = "r_zero"
    /\ s_stats' = ZeroStats
    /\ attempts' = 0
    /\ Goto("main", "r_st1")
    /\ UNCHANGED <<reset_frame, rst, pre>>

\* ResetStoreDisconnects without the assignment
ResetStoreDisconnects_Dropped ==
    /\ pc["main"] = "r_st1"
    /\ Goto("main", "r_st2")
    /\ UNCHANGED <<reset_frame, s_stats, attempts, rst, pre>>

\* s_stats.desconexoes = desconexoes
ResetStoreDisconnects ==
    /\ pc["main"] = "r_st1"
    /\ s_stats' = [s_stats EXCEPT !.desconexoes = rst.desconexoes]
    /\ Goto("main", "r_st2")
    /\ UNCHANGED <<reset_frame, attempts, rst, pre>>

\* s_stats.tempo_desconectado_ms = tempo_desconectado
ResetStoreOffline ==
    /\ pc["main"] = "r_st2"
    /\ s_stats' = [s_stats EXCEPT !.tempo_desconectado_ms =
                                      rst.tempo_desconectado]
    /\ Goto("main", "r_ret")
    /\ UNCHANGED <<reset_frame, attempts, rst, pre>>

\* mqtt_reset_statistics returns
ResetReturn ==
    /\ pc["main"] = "r_ret"
    /\ rst' = [rst EXCEPT !.done = @ + 1,
                          !.first = IF rst.done = 0 THEN s_stats ELSE @]
    /\ Leave("main")
    /\ Goto("main", "idle")
    /\ UNCHANGED <<reset_frame, s_stats, attempts>>

\* the system is running, with any statistics
InitReset ==
    /\ now = BootMs
    /\ acWake = BootMs + AC_CHECK_MS
    /\ s_stats \in [{"total_publicadas", "total_recebidas",
                     "falhas_publicacao", "desconexoes",
                     "tempo_desconectado_ms", "ultima_mensagem_ts"}
                    -> 0..MaxStat]
    /\ s_mqtt_client = "live"
    /\ s_mqtt_connected = TRUE
    /\ s_temp_low_start_time_ms = 0
    /\ s_system_initialized = TRUE
    /\ gpio18 = 0
    /\ gpio19 = 0
    /\ pc = [c \in Ctx |-> "idle"]
    /\ preemptive = FALSE
    /\ epoch = 0
    /\ lastHigh = 0
    /\ evl = NoEvent
    /\ call = [c \in Ctx |-> NoCall]
    /\ attempts = 0
    /\ tasks = Ctx
    /\ link = "up"
    /\ wifiq = <<>>
    /\ s_wifi_retry_num = 0
    /\ wev = NoWifiEvent
    /\ rst = NoReset
    /\ hist = [NoHist EXCEPT !.sessions = 1, !.subs = 4, !.starts = 1]
    /\ pre = [c \in Ctx |-> NoSnap]

NextReset ==
    \/ ResetLoadDisconnects
    \/ ResetLoadOffline
    \/ ResetZero
    \/ ResetStoreDisconnects
    \/ ResetStoreOffline
    \/ ResetReturn

SpecReset == InitReset /\ [][NextReset]_vars

\* C17: mqtt_reset_statistics keeps desconexoes and tempo_desconectado_ms and
\* zeroes total_publicadas, total_recebidas, falhas_publicacao and
\* ultima_mensagem_ts; a second call gives the state the first one gave.
C17_ResetFrame ==
    pc["main"] = "r_ret" =>
        /\ s_stats.desconexoes = pre["main"].stats.desconexoes
        /\ s_stats.tempo_desconectado_ms =
               pre["main"].stats.tempo_desconectado_ms
        /\ s_stats.total_publicadas = 0
        /\ s_stats.total_recebidas = 0
        /\ s_stats.falhas_publicacao = 0
        /\ s_stats.ultima_mensagem_ts = 0
        /\ rst.done >= 1 => s_stats = rst.first

\* C17 witness: the second call returns with the disconnect count and the
\* offline time the first call found, and the message count at zero
C17_Witness ==
    /\ pc["main"] = "r_ret"
    /\ rst.done = 1
    /\ s_stats.desconexoes = MaxStat
    /\ s_stats.tempo_desconectado_ms = 1
    /\ s_stats.total_publicadas = 0

\* C18 (as stated): no step other than a reset lowers a statistics counter.
C18_Original ==
    [][/\ s_stats'.total_publicadas >= s_stats.total_publicadas
       /\ s_stats'.total_recebidas >= s_stats.total_recebidas
       /\ s_stats'.falhas_publicacao >= s_stats.falhas_publicacao
       /\ s_stats'.desconexoes >= s_stats.desconexoes
       /\ s_stats'.tempo_desconectado_ms >= s_stats.tempo_desconectado_ms]_vars

\* C19 (as stated): desconexoes is the number of times an established
\* session was lost.
C19_Original == s_stats.desconexoes = hist.lost

\* C20 (as stated): while the session is up, tempo_desconectado_ms is the
\* total time for which the sessions lost so far stayed down.
C20_Original == s_mqtt_connected => s_stats.tempo_desconectado_ms = hist.offline

(***************************************************************************)
(* mqtt_system_shutdown, called by the application.                        *)
(***************************************************************************)
\* the calls of mqtt_system_shutdown in a behaviour
MaxShutdowns == 1

\* the tasks mqtt_system_shutdown deletes
SystemTasks == {"tel", "health", "wd", "ac"}

\* if (!s_system_initialized) return ESP_ERR_INVALID_STATE;
\* if (s_mqtt_connected) { mqtt_publish_status(false); ...
ShutBegin ==
    /\ MayStart("main")
    /\ s_system_initialized => hist.shutdowns < MaxShutdowns
    /\ IF ~s_system_initialized
       THEN /\ Refuse("shutdown", ESP_ERR_INVALID_STATE)
            /\ UNCHANGED <<attempts, pre, hist>>
       ELSE /\ hist' = [hist EXCEPT !.afterOffline = 0 - 1,
                                    !.shutdowns = @ + 1]
            /\ IF s_mqtt_connected
               THEN BeginCall("main", "publish", MQTT_TOPIC_STATUS, "offline",
                              1, TRUE, "sd_delay")
               ELSE Goto("main", "sd_tasks")
                    /\ UNCHANGED <<call, attempts, pre>>
    /\ UNCHANGED <<actuator_vars, link_vars, rst, s_stats, s_mqtt_client,
                   s_mqtt_connected, s_system_initialized, tasks>>

\* ... vTaskDelay(pdMS_TO_TICKS(100)); } is over
ShutDelayOver ==
    /\ pc["main"] = "sd_delay"
    /\ MayRun("main")
    /\ Goto("main", "sd_tasks")
    /\ UNCHANGED <<api_frame, call, attempts, pre>>

\* vTaskDelete of the four tasks: each stops where it is
ShutStopTasks ==
    /\ pc["main"] = "sd_tasks"
    /\ tasks' = tasks \ SystemTasks
    /\ pc' = [c \in Ctx |-> IF c \in SystemTasks THEN "idle"
                            ELSE IF c = "main" THEN "sd_client" ELSE pc[c]]
    /\ call' = [c \in Ctx |-> IF c \in SystemTasks THEN NoCall ELSE call[c]]
    /\ pre' = [c \in Ctx |-> IF c \in SystemTasks THEN NoSnap ELSE pre[c]]
    /\ UNCHANGED <<rule_vars, s_stats, s_mqtt_client, s_mqtt_connected,
                   s_system_initialized, attempts>>

\* esp_mqtt_client_stop, which returns once the client's task has ended (no
\* handler is in progress any more), and esp_mqtt_client_destroy: the handle
\* still holds the address of the client that has been freed
ShutStopClient ==
    /\ pc["main"] = "sd_client"
    /\ pc["ev"] = "idle"
    /\ s_mqtt_client' = IF s_mqtt_client = "NULL" THEN "NULL" ELSE "freed"
    /\ Goto("main", "sd_null")
    /\ UNCHANGED <<rule_vars, s_stats, s_mqtt_connected, s_system_initialized,
                   call, attempts, tasks, pre>>

\* s_mqtt_client = NULL
ShutClearHandle ==
    /\ pc["main"] = "sd_null"
    /\ s_mqtt_client' = "NULL"
    /\ Goto("main", "sd_flags")
    /\ UNCHANGED <<rule_vars, s_stats, s_mqtt_connected, s_system_initialized,
                   call, attempts, tasks, pre>>

\* ShutFlags that also switches both outputs off
ShutFlags_OutputsOff ==
    /\ pc["main"] = "sd_flags"
    /\ s_system_initialized' = FALSE
    /\ s_mqtt_connected' = FALSE
    /\ gpio18' = 0
    /\ gpio19' = 0
    /\ Goto("main", "idle")
    /\ UNCHANGED <<now, acWake, s_temp_low_start_time_ms, preemptive, epoch,
                   lastHigh, evl, link_vars, rst, hist, s_stats,
                   s_mqtt_client, call, attempts, tasks, pre>>

\* s_system_initialized = false; s_mqtt_connected = false; return ESP_OK
ShutFlags ==
    /\ pc["main"] = "sd_flags"
    /\ s_system_initialized' = FALSE
    /\ s_mqtt_connected' = FALSE
    /\ Goto("main", "idle")
    /\ UNCHANGED <<rule_vars, s_stats, s_mqtt_client, call, attempts, tasks,
                   pre>>

\* the firmware with its whole life cycle: init, use, shutdown, init again
NextLifecycle ==
    \/ NextFirmware
    \/ ShutBegin
    \/ ShutDelayOver
    \/ ShutStopTasks
    \/ ShutStopClient
    \/ ShutClearHandle
    \/ ShutFlags

SpecLifecycle == InitFacadeSeq /\ [][NextLifecycle]_vars

\* mqtt_system_init with a create_tasks() that may fail, the telemetry task,
\* the loss of the session and mqtt_system_shutdown
NextGuard ==
    \/ \E c \in Callers : PubCheckClient(c)
    \/ \E c \in Callers : PubCheckConnected(c)
    \/ \E c \in Callers : \E msg_id \in MsgIds : PubSend(c, msg_id)
    \/ \E c \in Callers : PubLoadOk(c)
    \/ \E c \in Callers : PubStoreOk(c)
    \/ \E c \in Callers : PubLoadFail(c)
    \/ \E c \in Callers : PubStoreFail(c)
    \/ \E c \in Callers : ApiReturn(c)
    \/ TelTick
    \/ \E ok \in BOOLEAN : InitBegin(ok)
    \/ InitWaitOver
    \/ \E n \in 0..3 : InitTasksFail(n)
    \/ InitPublishStatus
    \/ InitPublishBoot
    \/ InitDone
    \/ MainReturn
    \/ \E c \in Callers : SubCheck(c)
    \/ \E c \in Callers : \E msg_id \in MsgIds : SubSend(c, msg_id)
    \/ EvConnected
    \/ EvSubscribeNext
    \/ EvDisconnected
    \/ ShutBegin
    \/ ShutDelayOver
    \/ ShutStopTasks
    \/ ShutStopClient
    \/ ShutClearHandle
    \/ ShutFlags

SpecGuard == InitFacadeSeq /\ [][NextGuard]_vars

\* the system up and running at the instant a tick of the checker is due,
\* ten minutes after boot, with messages received and published: the lights
\* and the AC on or off, the counter zero or armed at boot
InitSystem ==
    /\ now = BootMs + TEN_MINUTES_MS
    /\ acWake = BootMs + TEN_MINUTES_MS
    /\ s_stats = [ZeroStats EXCEPT !.total_publicadas = MaxAttempts - 1,
                                  !.total_recebidas = MaxData - 2]
    /\ s_mqtt_client = "live"
    /\ s_mqtt_connected = TRUE
    /\ s_temp_low_start_time_ms \in {0, BootMs}
    /\ s_system_initialized = TRUE
    /\ gpio18 \in {0, 1}
    /\ gpio19 \in {0, 1}
    /\ pc = [c \in Ctx |-> "idle"]
    /\ preemptive = FALSE
    /\ epoch = 0
    /\ lastHigh = 0
    /\ evl = NoEvent
    /\ call = [c \in Ctx |-> NoCall]
    /\ attempts = MaxAttempts - 1
    /\ tasks = Ctx
    /\ link = "up"
    /\ wifiq = <<>>
    /\ s_wifi_retry_num = 0
    /\ wev = NoWifiEvent
    /\ rst = NoReset
    /\ hist = [NoHist EXCEPT !.sessions = 1, !.subs = 4, !.starts = 1]
    /\ pre = [c \in Ctx |-> NoSnap]

\* the firmware at work on one processor, from that instant to its shutdown:
\* the data events and the checker, the facade and its periodic callers, the
\* session events and mqtt_system_shutdown
NextSystem ==
    \/ \E topic \in DataTopics, data \in Payloads : EvData(topic, data)
    \/ EvRecvStore
    \/ EvLastTs
    \/ EvLumSet
    \/ EvTempOn
    \/ EvTempClear
    \/ EvTempLevel
    \/ EvTempCheck
    \/ EvTempArm
    \/ EvReturn
    \/ AcWakeUp
    \/ AcCheckStarted
    \/ AcElapsed
    \/ AcSwitchOff
    \/ AcResetCounter
    \/ AcForceZero
    \/ AcSleep
    \/ \E c \in Callers : PubCheckClient(c)
    \/ \E c \in Callers : PubCheckConnected(c)
    \/ \E c \in Callers : \E msg_id \in MsgIds : PubSend(c, msg_id)
    \/ \E c \in Callers : PubLoadOk(c)
    \/ \E c \in Callers : PubStoreOk(c)
    \/ \E c \in Callers : PubLoadFail(c)
    \/ \E c \in Callers : PubStoreFail(c)
    \/ \E c \in Callers : SubCheck(c)
    \/ \E c \in Callers : \E msg_id \in MsgIds : SubSend(c, msg_id)
    \/ \E c \in Callers : ApiReturn(c)
    \/ TelTick
    \/ HealthTick
    \/ EvConnected
    \/ EvSubscribeNext
    \/ EvDisconnected
    \/ ShutBegin
    \/ ShutDelayOver
    \/ ShutStopTasks
    \/ ShutStopClient
    \/ ShutClearHandle
    \/ ShutFlags
    \/ MainReturn

SpecSystem == InitSystem /\ [][NextSystem]_vars

\* the running system is shut down while its tasks and the task of the
\* application, which shutdown does not stop, go on publishing
NextShutdown ==
    \/ \E c \in Callers : PubCheckClient(c)
    \/ \E c \in Callers : PubCheckConnected(c)
    \/ \E c \in Callers : \E msg_id \in MsgIds : PubSend(c, msg_id)
    \/ \E c \in Callers : PubLoadOk(c)
    \/ \E c \in Callers : PubStoreOk(c)
    \/ \E c \in Callers : PubLoadFail(c)
    \/ \E c \in Callers : PubStoreFail(c)
    \/ \E c \in Callers : SubCheck(c)
    \/ \E c \in Callers : \E msg_id \in MsgIds : SubSend(c, msg_id)
    \/ \E c \in Callers : ApiReturn(c)
    \/ TelTick
    \/ HealthTick
    \/ CustomTick
    \/ CustomTemperature
    \/ CustomMessage
    \/ EvConnected
    \/ EvSubscribeNext
    \/ EvDisconnected
    \/ ShutBegin
    \/ ShutDelayOver
    \/ ShutStopTasks
    \/ ShutStopClient
    \/ ShutClearHandle
    \/ ShutFlags
    \/ MainReturn

\* the system up and running after a start without a session (nothing has
\* been published), the session established since, the application's task
\* created
InitShutdown ==
    /\ now = BootMs
    /\ acWake = BootMs + AC_CHECK_MS
    /\ s_stats = ZeroStats
    /\ s_mqtt_client = "live"
    /\ s_mqtt_connected = TRUE
    /\ s_temp_low_start_time_ms = 0
    /\ s_system_initialized = TRUE
    /\ gpio18 = 0
    /\ gpio19 = 0
    /\ pc = [c \in Ctx |-> "idle"]
    /\ preemptive = TRUE
    /\ epoch = 0
    /\ lastHigh = 0
    /\ evl = NoEvent
    /\ call = [c \in Ctx |-> NoCall]
    /\ attempts = 0
    /\ tasks = Ctx
    /\ link = "up"
    /\ wifiq = <<>>
    /\ s_wifi_retry_num = 0
    /\ wev = NoWifiEvent
    /\ rst = NoReset
    /\ hist = [NoHist EXCEPT !.sessions = 1, !.subs = 4, !.starts = 1]
    /\ pre = [c \in Ctx |-> NoSnap]

\* shutdown and the tasks pre-empt one another between any two statements
SpecShutdown == InitShutdown /\ [][NextShutdown]_vars

(***************************************************************************)
(* The queries mqtt_get_statistics and mqtt_get_health_status, called by   *)
(* the application.  call["main"].out is the object the pointer argument   *)
(* designates: <<>> for a null pointer, else <<its content>>.  Of          *)
(* health_status_t the fields mqtt_connected and wifi_rssi are kept; the   *)
(* heap sizes and the uptime are readings of the platform.                 *)
(***************************************************************************)
ESP_ERR_INVALID_ARG == 258

\* the value written in CONFIG_QEMU_MODE builds
QEMU_RSSI == 0 - 127

\* readings of esp_wifi_sta_get_rssi, in dBm
RssiReadings == {0 - 90, 0 - 40}

\* what the wifi_rssi field of a health_status_t that was never written
\* (health_status_t health; on the stack) may hold
StackInts == {QEMU_RSSI, 0 - 40, 0, 77}

\* the queries of the application in a behaviour
MaxQueries == 1

query_frame == <<actuator_vars, link_vars, rst, s_stats, s_mqtt_client,
                 s_mqtt_connected, s_system_initialized, attempts, tasks>>

\* mqtt_get_statistics(stats), with stats null or pointing to a buffer
AppGetStatistics(valid) ==
    /\ MayStart("main")
    /\ call' = [call EXCEPT !["main"] =
                  [NoCall EXCEPT !.fn = "get_statistics",
                                 !.out = IF valid THEN <<ZeroStats>>
                                         ELSE <<>>]]
    /\ hist.queries < MaxQueries
    /\ hist' = [hist EXCEPT !.queries = @ + 1]
    /\ Enter("main")
    /\ Goto("main", "q_schk")
    /\ UNCHANGED query_frame

\* if (stats == NULL) return ESP_ERR_INVALID_ARG
GetStatsCheck ==
    /\ pc["main"] = "q_schk"
    /\ IF call["main"].out = <<>>
       THEN Fail("main", ESP_ERR_INVALID_ARG, "a_ret")
       ELSE Goto("main", "q_copy") /\ UNCHANGED call
    /\ UNCHANGED <<query_frame, hist, pre>>

\* GetStatsCopy that copies the counters and not the timestamp
GetStatsCopy_Partial ==
    /\ pc["main"] = "q_copy"
    /\ call' = [call EXCEPT !["main"].out =
                  <<[s_stats EXCEPT !.ultima_mensagem_ts =
                                        call["main"].out[1].ultima_mensagem_ts]>>,
                            !["main"].result = ESP_OK]
    /\ Goto("main", "a_ret")
    /\ UNCHANGED <<query_frame, hist, pre>>

\* memcpy(stats, &s_stats, sizeof(mqtt_statistics_t)); return ESP_OK
GetStatsCopy ==
    /\ pc["main"] = "q_copy"
    /\ call' = [call EXCEPT !["main"].out = <<s_stats>>,
                            !["main"].result = ESP_OK]
    /\ Goto("main", "a_ret")
    /\ UNCHANGED <<query_frame, hist, pre>>

\* mqtt_get_health_status(health), with health null or pointing to an object
\* whose content before the call is anything
AppGetHealth(valid, connected, rssi) ==
    /\ MayStart("main")
    /\ call' = [call EXCEPT !["main"] =
                  [NoCall EXCEPT !.fn = "get_health_status",
                                 !.out = IF valid
                                         THEN <<[mqtt_connected |-> connected,
                                                 wifi_rssi |-> rssi]>>
                                         ELSE <<>>]]
    /\ hist.queries < MaxQueries
    /\ hist' = [hist EXCEPT !.queries = @ + 1]
    /\ Enter("main")
    /\ Goto("main", "q_hchk")
    /\ UNCHANGED query_frame

\* if (health == NULL) return ESP_ERR_INVALID_ARG
GetHealthCheck ==
    /\ pc["main"] = "q_hchk"
    /\ IF call["main"].out = <<>>
       THEN Fail("main", ESP_ERR_INVALID_ARG, "a_ret")
       ELSE Goto("main", "q_fill") /\ UNCHANGED call
    /\ UNCHANGED <<query_frame, hist, pre>>

\* health->free_heap ... health->mqtt_connected = s_mqtt_connected
GetHealthFill ==
    /\ pc["main"] = "q_fill"
    /\ call' = [call EXCEPT !["main"].out[1].mqtt_connected = s_mqtt_connected]
    /\ Goto("main", "q_rssi")
    /\ UNCHANGED <<query_frame, hist, pre>>

\* esp_wifi_sta_get_rssi(&health->wifi_rssi), which writes the reading when
\* the station is associated and fails, writing nothing, when it is not; its
\* result is not looked at; return ESP_OK
GetHealthRssi(reading) ==
    /\ pc["main"] = "q_rssi"
    /\ call' = [call EXCEPT !["main"].out[1].wifi_rssi =
                                IF link = "up" THEN reading ELSE @,
                            !["main"].result = ESP_OK]
    /\ Goto("main", "a_ret")
    /\ UNCHANGED <<query_frame, hist, pre>>

\* the system is running, with any statistics, the station associated or not
\* and the session up or not
InitQuery ==
    /\ now = BootMs
    /\ epoch = 0
    /\ acWake = BootMs + AC_CHECK_MS
    /\ s_stats \in [{"total_publicadas", "total_recebidas",
                     "falhas_publicacao", "desconexoes",
                     "tempo_desconectado_ms", "ultima_mensagem_ts"}
                    -> 0..MaxStat]
    /\ s_mqtt_client = "live"
    /\ s_mqtt_connected \in BOOLEAN
    /\ s_temp_low_start_time_ms = 0
    /\ s_system_initialized = TRUE
    /\ gpio18 = 0
    /\ gpio19 = 0
    /\ pc = [c \in Ctx |-> "idle"]
    /\ preemptive = FALSE
    /\ lastHigh = 0
    /\ evl = NoEvent
    /\ call = [c \in Ctx |-> NoCall]
    /\ attempts = 0
    /\ tasks = Ctx
    /\ link \in {"up", "down"}
    /\ wifiq = <<>>
    /\ s_wifi_retry_num = 0
    /\ wev = NoWifiEvent
    /\ rst = NoReset
    /\ hist = [NoHist EXCEPT !.sessions = 1, !.subs = 4, !.starts = 1]
    /\ pre = [c \in Ctx |-> NoSnap]

NextQuery ==
    \/ \E valid \in BOOLEAN : AppGetStatistics(valid)
    \/ GetStatsCheck
    \/ GetStatsCopy
    \/ \E valid \in BOOLEAN, connected \in BOOLEAN, rssi \in StackInts :
          AppGetHealth(valid, connected, rssi)
    \/ GetHealthCheck
    \/ GetHealthFill
    \/ \E reading \in RssiReadings : GetHealthRssi(reading)
    \/ ApiReturn("main")

SpecQuery == InitQuery /\ [][NextQuery]_vars

(***************************************************************************)
(* Claims about the statistics of received messages, shutdown, degraded    *)
(* operation and the queries.                                              *)
(***************************************************************************)
\* mqtt_event_handler has handled an MQTT_EVENT_DATA and is about to return
DataDone == pc["ev"] = "ret" /\ evl.kind = "data"

\* C21 (as stated): a data event adds one to total_recebidas and leaves in
\* ultima_mensagem_ts the millisecond time of its handling, whatever the
\* 64-bit clock shows.
C21_Original ==
    DataDone =>
        /\ s_stats.total_recebidas = pre["ev"].stats.total_recebidas + 1
        /\ [hi |-> 0, lo |-> s_stats.ultima_mensagem_ts] = ClockMs

\* C22 (as stated): when mqtt_system_shutdown tears the session down, the
\* periodic tasks have been stopped, and if "offline" was published nothing
\* was published after it.
C22_Original ==
    pc["main"] = "sd_client" =>
        /\ tasks \cap SystemTasks = {}
        /\ hist.afterOffline <= 0

RetryExhausted == s_wifi_retry_num >= WIFI_MAX_RETRY /\ link = "down"

\* C24 (as stated): with the link retries used up and nothing else in
\* progress, the delay checker and the periodic publishing tasks are there to
\* take their next tick.
C24_Original ==
    (RetryExhausted /\ Active = {} /\ pc["main"] = "idle") =>
        \A c \in {"ac", "tel", "health"} : Tick(c)

\* a query of the application is about to return
QueryDone ==
    /\ pc["main"] = "a_ret"
    /\ call["main"].fn \in {"get_statistics", "get_health_status"}

\* the shared state is as it was when the operation of context c began
Untouched(c) ==
    /\ s_stats = pre[c].stats
    /\ s_mqtt_connected = pre[c].connected
    /\ s_mqtt_client = pre[c].client
    /\ gpio18 = pre[c].gpio18
    /\ gpio19 = pre[c].gpio19
    /\ s_temp_low_start_time_ms = pre[c].ts

\* C25: with a null pointer both queries return ESP_ERR_INVALID_ARG and
\* change nothing; with a buffer, mqtt_get_statistics returns ESP_OK and the
\* buffer holds the statistics; neither query changes the shared state.
C25_Queries ==
    QueryDone =>
        /\ Untouched("main")
        /\ call["main"].out = <<>> =>
               call["main"].result = ESP_ERR_INVALID_ARG
        /\ call["main"].out # <<>> => call["main"].result = ESP_OK
        /\ (call["main"].fn = "get_statistics" /\ call["main"].out # <<>>) =>
               call["main"].out = <<s_stats>>

\* C25 witness: mqtt_get_statistics returns a copy of statistics with a
\* timestamp and received messages
C25_Witness ==
    /\ QueryDone
    /\ call["main"].fn = "get_statistics"
    /\ call["main"].out # <<>>
    /\ s_stats.ultima_mensagem_ts = MaxStat
    /\ s_stats.total_recebidas = 1

\* C26 (as stated): when the station is not associated and the query of the
\* signal strength fails, the snapshot holds the sentinel.
C26_Original ==
    (QueryDone /\ call["main"].fn = "get_health_status"
     /\ call["main"].out # <<>> /\ link # "up") =>
        call["main"].out[1].wifi_rssi = QEMU_RSSI

\* the message of context c is about to be handed to the client
Handing(c) == pc[c] = "p_send"

\* C27: a message handed to the client on the status topic says "online" or
\* "offline" with QoS 1 and retain set; telemetry and boot messages have
\* QoS 1 and retain clear; health messages have QoS 0 and retain clear.
C27_Attributes ==
    \A c \in Callers : Handing(c) =>
        /\ call[c].topic = MQTT_TOPIC_STATUS =>
               /\ call[c].data \in {"online", "offline"}
               /\ call[c].qos = 1
               /\ call[c].retain
        /\ call[c].topic \in {MQTT_TOPIC_TELEMETRY, MQTT_TOPIC_BOOT} =>
               call[c].qos = 1 /\ ~call[c].retain
        /\ call[c].topic = MQTT_TOPIC_HEALTH =>
               call[c].qos = 0 /\ ~call[c].retain

\* C27 witness: the boot message is being handed over after the "online"
\* status was accepted
C27_Witness ==
    /\ Handing("main")
    /\ call["main"].topic = MQTT_TOPIC_BOOT
    /\ s_stats.total_publicadas = 1

\* C29: a tick of the checker that finds the AC on, the counter armed and
\* at least 600000 ms elapsed switches the AC off and zeroes the counter; one
\* that finds the AC on with less time elapsed, or the counter zero, changes
\* neither; one that finds the AC off leaves it off and zeroes the counter
\* whatever it held.
C29_CheckerStep ==
    TickDone =>
        /\ (pre["ac"].gpio19 = 1 /\ pre["ac"].ts # 0
            /\ ElapsedMs(now, pre["ac"].ts) >= TEN_MINUTES_MS) =>
               (gpio19 = 0 /\ s_temp_low_start_time_ms = 0)
        /\ (pre["ac"].gpio19 = 1
            /\ (pre["ac"].ts = 0
                \/ ElapsedMs(now, pre["ac"].ts) < TEN_MINUTES_MS)) =>
               (gpio19 = 1 /\ s_temp_low_start_time_ms = pre["ac"].ts)
        /\ pre["ac"].gpio19 = 0 =>
               (gpio19 = 0 /\ s_temp_low_start_time_ms = 0)

\* C29 witness: a tick found the AC off and a counter still armed, and has
\* zeroed it
C29_Witness ==
    /\ TickDone
    /\ pre["ac"].gpio19 = 0
    /\ pre["ac"].ts # 0
    /\ s_temp_low_start_time_ms = 0

\* C28 (as stated): the periodic tasks only read the session flag and the
\* statistics, so that a call of a periodic task that nothing interleaves
\* with returns with both as it found them.
C28_Original ==
    \A c \in PeriodicTasks :
        pc[c] = "a_ret" => /\ s_stats = pre[c].stats
                           /\ s_mqtt_connected = pre[c].connected

\* C30: the telemetry and health tasks start a publish only at a tick that
\* finds the session flag set, and that step changes no statistics; a tick
\* that finds it clear starts nothing; so a failure counted by one of these
\* tasks belongs to a tick that observed the session up.
C30_GatedTicks ==
    [][\A c \in {"tel", "health"} :
          /\ (pc[c] = "idle" /\ pc'[c] # "idle") =>
                 /\ s_mqtt_connected
                 /\ call'[c].fn = "publish"
                 /\ attempts' = attempts + 1
                 /\ s_stats' = s_stats
          /\ (pc[c] = "p_fail_st"
              /\ s_stats'.falhas_publicacao # s_stats.falhas_publicacao) =>
                 pre[c].connected]_vars

\* C30 witness: after a session was lost and another established, the
\* telemetry task observed the session up at its tick, the client refused the
\* message, and the failure has been counted
C30_Witness ==
    /\ pc["tel"] = "a_ret"
    /\ pre["tel"].connected
    /\ hist.sessions = 2
    /\ call["tel"].result = 0 - 1
    /\ s_stats.falhas_publicacao = pre["tel"].stats.falhas_publicacao + 1

\* wifi_event_handler has handled an IP_EVENT_STA_GOT_IP and is about to
\* return
GotIpDone == pc["sys"] = "h_ret" /\ wev.kind = "GOT_IP"

\* C31: once the handler has handled a got-IP event the retry count is 0,
\* whatever it was when the event arrived, and no connect attempt counts
\* against the budget of the next link loss.
C31_ResetOnGotIp ==
    GotIpDone => (s_wifi_retry_num = 0 /\ hist.tries = 0)

\* C31 witness: the fifth retry succeeded, and the got-IP event has been
\* handled with the count at its bound
C31_Witness ==
    /\ GotIpDone
    /\ wev.retry0 = WIFI_MAX_RETRY
    /\ s_wifi_retry_num = 0

\* a data event on a topic that has no rule has been handled
OtherDone ==
    pc["ev"] = "ret" /\ evl.kind = "data"
    /\ evl.topic \notin {TOPIC_LUM, TOPIC_TEMP}

\* C32: an illumination event leaves the AC output and the counter as they
\* were, a temperature event leaves the light output as it was, and an event
\* on any other topic leaves both outputs and the counter as they were; in
\* the statistics a data event changes total_recebidas and
\* ultima_mensagem_ts only.
C32_IndependentRules ==
    /\ LumDone => /\ gpio19 = pre["ev"].gpio19
                  /\ s_temp_low_start_time_ms = pre["ev"].ts
    /\ TempDone => gpio18 = pre["ev"].gpio18
    /\ OtherDone => /\ gpio18 = pre["ev"].gpio18
                    /\ gpio19 = pre["ev"].gpio19
                    /\ s_temp_low_start_time_ms = pre["ev"].ts
    /\ (pc["ev"] = "ret" /\ evl.kind = "data") =>
           s_stats = [pre["ev"].stats EXCEPT
                         !.total_recebidas = @ + 1,
                         !.ultima_mensagem_ts = s_stats.ultima_mensagem_ts]

\* C32 witness: the value 25 arrived on the commands topic while the AC was
\* off with the lights on, and it is still off
C32_Witness ==
    /\ OtherDone
    /\ evl.value > 23
    /\ pre["ev"].gpio18 = 1
    /\ gpio19 = 0

\* C33: the client is started by mqtt_system_init only, once per
\* initialisation; the handle changes only in a step of init or of shutdown;
\* and the session flag is set only by the handler of MQTT_EVENT_CONNECTED
\* and cleared only by the handler of MQTT_EVENT_DISCONNECTED and by
\* shutdown's last step.
C33_SessionDelegated ==
    [][/\ hist'.starts # hist.starts =>
              (pc["main"] = "idle" /\ pc'["main"] = "i_wait"
               /\ hist'.starts = hist.starts + 1
               /\ hist.starts <= hist.shutdowns)
       /\ s_mqtt_client' # s_mqtt_client => pc'["main"] # pc["main"]
       /\ (~s_mqtt_connected /\ s_mqtt_connected') =>
              (pc["ev"] = "idle" /\ pc'["ev"] = "e_sub1")
       /\ (s_mqtt_connected /\ ~s_mqtt_connected') =>
              \/ pc["main"] = "sd_flags" /\ pc'["main"] = "idle"
              \/ /\ pc' = pc
                 /\ s_stats'.desconexoes = s_stats.desconexoes + 1]_vars

\* C33 witness: the session was lost and came up again while the client had
\* been started once, and the telemetry task has published since
C33_Witness ==
    /\ hist.starts = 1
    /\ hist.lost = 1
    /\ hist.sessions = 2
    /\ s_mqtt_connected
    /\ pc["tel"] = "a_ret"

\* C34: the retry count stays within 0 .. WIFI_MAX_RETRY, whatever the
\* interleaving of wifi_event_handler with the watchdog's unlocked reset.
C34_RetryRange ==
    s_wifi_retry_num >= 0 /\ s_wifi_retry_num <= WIFI_MAX_RETRY

\* C34 witness: the watchdog zeroed the count between the load and the store
\* of the handler's increment, and the store has put back the old count + 1
C34_Witness ==
    /\ pc["sys"] = "h_ret"
    /\ wev.kind = "STA_DISCONNECTED"
    /\ wev.retry0 = WIFI_MAX_RETRY - 1
    /\ hist.tries = 0
    /\ s_wifi_retry_num = WIFI_MAX_RETRY

\* C35 (as stated): once the handler of a temperature reading > 23 has done
\* its writes, and while that reading is the last one, the AC output is ON,
\* whatever the delay checker was doing in the meantime.
C35_Original ==
    (TempDone /\ evl.value > 23) => gpio19 = 1

C37_Original ==
    \A c \in Callers : pc[c] \in {"p_send", "s_send"} => s_mqtt_client = "live"

\* C38: a call that publishes "online" is begun only by mqtt_system_init, at
\* its step after create_tasks, with the tasks created and the session up, and
\* init goes on to the boot message when that call returns; init comes to that
\* step once per initialisation, and begins the boot message only after it;
\* every call the session-established handler begins is a subscription.
C38_OnlineByInit ==
    [][/\ \A c \in Callers :
              (call'[c].data = "online" /\ call[c].data # "online") =>
                  /\ c = "main"
                  /\ pc["main"] = "i_pub"
                  /\ s_mqtt_connected
                  /\ ~s_system_initialized
                  /\ SystemTasks \subseteq tasks
                  /\ call'[c].topic = MQTT_TOPIC_STATUS
                  /\ call'[c].next = "i_boot"
       /\ (pc'["main"] = "i_pub" /\ pc["main"] # "i_pub") =>
              pc["main"] = "i_wait"
       /\ (pc'["main"] = "i_wait" /\ pc["main"] # "i_wait") =>
              hist'.starts = hist.starts + 1
       /\ (pc'["main"] = "i_boot" /\ pc["main"] # "i_boot") =>
              (pc["main"] = "a_ret" /\ call["main"].data = "online")
       /\ (call'["main"].topic = MQTT_TOPIC_BOOT
              /\ call["main"].topic # MQTT_TOPIC_BOOT) =>
              pc["main"] = "i_boot"
       /\ (call'["ev"].fn # "none" /\ call["ev"].fn = "none") =>
              call'["ev"].fn = "subscribe"]_vars

\* C38 witness: the system was initialised without a session, the session
\* has been established since and its four subscriptions are done, and no
\* publish has been accepted or has failed
C38_Witness ==
    /\ s_system_initialized
    /\ s_mqtt_connected
    /\ pc["ev"] = "idle"
    /\ pc["main"] = "idle"
    /\ hist.subs = 4
    /\ s_stats.total_publicadas = 0
    /\ s_stats.falhas_publicacao = 0

\* C39: mqtt_system_init called while the system is initialised returns
\* ESP_OK, and mqtt_system_shutdown called while it is not returns
\* ESP_ERR_INVALID_STATE, and neither changes anything; while the system is
\* initialised no client is started, the statistics are not zeroed and the
\* handle changes in shutdown only; no step of shutdown's body is taken
\* while the system is not initialised.
C39_RefusedCalls ==
    [][/\ (pc["main"] = "idle" /\ pc'["main"] = "m_ret") =>
              /\ call'["main"].fn =
                     (IF s_system_initialized THEN "init" ELSE "shutdown")
              /\ call'["main"].result =
                     (IF s_system_initialized THEN ESP_OK
                      ELSE ESP_ERR_INVALID_STATE)
              /\ UNCHANGED <<s_stats, s_mqtt_client, s_mqtt_connected,
                             s_system_initialized, tasks, gpio18, gpio19,
                             s_temp_low_start_time_ms, link_vars, hist>>
       /\ (pc["main"] = "idle" /\ call'["main"].fn = "init"
              /\ call["main"].fn # "init") => s_system_initialized
       /\ (call'["main"].fn = "shutdown" /\ call["main"].fn # "shutdown") =>
              ~s_system_initialized
       /\ s_system_initialized =>
              /\ hist'.starts = hist.starts
              /\ s_stats' = ZeroStats => s_stats = ZeroStats
              /\ s_mqtt_client' # s_mqtt_client =>
                     pc["main"] \in {"sd_client", "sd_null"}
              /\ tasks \subseteq tasks'
                     \/ pc["main"] = "sd_tasks"
       /\ ~s_system_initialized =>
              /\ pc'["main"] \notin {"sd_delay", "sd_tasks", "sd_client",
                                     "sd_null", "sd_flags"}
              /\ call'["main"].data # "offline"]_vars

\* C39 witness: mqtt_system_shutdown has returned its error after an init
\* whose create_tasks() failed part-way, with the client started and some of
\* the tasks created
C39_Witness ==
    /\ pc["main"] = "m_ret"
    /\ call["main"].fn = "shutdown"
    /\ call["main"].result = ESP_ERR_INVALID_STATE
    /\ ~s_system_initialized
    /\ s_mqtt_client = "live"
    /\ tasks \cap SystemTasks # {}
    /\ ~(SystemTasks \subseteq tasks)

=============================================================================
